---- MODULE Spec2Model ----
(***************************************************************************)
(* Node agent (src/node-agent/agent.py): the two reverse-proxy handlers,   *)
(* the statistics engine, the job slot, the job and log endpoints and the  *)
(* background loop, as a state machine.                                    *)
(*                                                                         *)
(* The Flask app runs with threaded=True (agent.py:2826) and the module    *)
(* globals agent_stats, node_state, communication_logs, model_config are   *)
(* read and written without any lock.  Handler threads are therefore       *)
(* modelled as processes whose steps each hold at most one access to a     *)
(* shared global that matters for the interleaving; "x += 1" on a shared   *)
(* counter is a read step and a write step.                                *)
(***************************************************************************)
EXTENDS Integers, Sequences, FiniteSets, TLC

(* ------------------------------ bounds -------------------------------- *)
NumHandlers == 2
MaxCalls == 2
MaxChunks == 2
MaxTicks == 1
MaxRestarts == 1
MaxCycles == 51
MaxUpdCycles == 26
MaxBeats == 1

(* ------------------------- program constants -------------------------- *)
MAX_LOG_ENTRIES == 200
STATS_HISTORY_SIZE == 100
JOBS_HISTORY_SIZE == 50
RPM_WINDOW_SECS == 60
UPDATE_CHECK_INTERVAL == 25

Services == {"ollama", "comfyui"}
Handlers == 1..NumHandlers

(* Python's None, for string-valued and job-valued slots. *)
None == "None"
NoJob == [type |-> "None"]
NoResp == [status |-> 0, chunked |-> FALSE, ctype |-> "none", body |-> "none", words |-> 0]
NoBody == [json |-> FALSE]

VARIABLES
  now,                \* wall clock, seconds (datetime.now())
  serial,             \* TRUE: requests are served one at a time (SpecSeq)
  calls,              \* number of requests accepted so far (bounds the run)
  h,                  \* per handler thread: program counter and locals
  agent_stats,        \* agent.py:125
  node_state,         \* agent.py:721
  jobs_history,       \* node_state["jobs_history"]
  communication_logs, \* agent.py:331
  central_server,     \* node_state["central_server"]
  last_heartbeat,     \* node_state["last_heartbeat"]
  model_config,       \* model_config["ollama_disabled_models"], agent.py:68
  config_file,        \* the content of CONFIG_FILE on disk
  disabled_workflows, \* model_config["comfyui_disabled_workflows"], agent.py:70
  models_info,        \* node_state["comfyui"]["models_info"]
  heartbeat_body,     \* the payload of the last heartbeat POSTed
  response_body,      \* the body of the last answer of a read-only endpoint
  alive,              \* the process runs
  no_update,          \* --no-update was given
  reachable,          \* which of the two services answer a probe
  restarts,           \* number of re-execs so far
  disk,               \* directory: agent.py, agent.py.new, agent.py.backup -> file
  inodes,             \* the files' contents
  u,                  \* per thread: position and locals in the update code
  heartbeat_counter,  \* agent.py:1016
  cycle,              \* passes of the background loop since the process started
  hardware,           \* node_state["hardware"]["gpu"], as update_system_stats reads it
  heartbeat_answer    \* the status of the answer to the last heartbeat (0: none came)

conf == <<central_server, last_heartbeat, model_config, config_file>>

advert == <<disabled_workflows, models_info, heartbeat_body, response_body, alive>>

updater == <<no_update, reachable, restarts, disk, inodes, u, heartbeat_counter, cycle>>

ext == <<advert, updater, hardware, heartbeat_answer>>

vars == <<now, serial, calls, h, agent_stats, node_state, jobs_history, communication_logs, conf, ext>>

(* ---------------------------- arithmetic ------------------------------ *)
RECURSIVE GCD(_, _)
GCD(a, b) == IF b = 0 THEN a ELSE GCD(b, a % b)

(* Exact value of a Python float quotient n/d (n >= 0, d > 0), in lowest terms. *)
Rat(n, d) == IF n = 0 THEN <<0, 1>> ELSE <<n \div GCD(n, d), d \div GCD(n, d)>>

RECURSIVE SumSeq(_)
SumSeq(s) == IF s = <<>> THEN 0 ELSE Head(s) + SumSeq(Tail(s))

(* A mutant: nothing is cut. *)
Prefix_uncut(s, n) == s

Prefix(s, n) == IF Len(s) <= n THEN s ELSE SubSeq(s, 1, n)
(* A mutant: the oldest entries are kept. *)
Suffix_oldest(s, n) == IF Len(s) <= n THEN s ELSE SubSeq(s, 1, n)

Suffix(s, n) == IF Len(s) <= n THEN s ELSE SubSeq(s, Len(s) - n + 1, Len(s))

(* ---------------------- requests and responses ------------------------ *)
(* A JSON request body, as far as the handlers look into it:               *)
(* prompt: "absent", "str" (sized) or "int" (no len()); messages:          *)
(* "absent", "empty" ([]) or "list" (a non-empty list of dicts).           *)
GenBody == [json |-> TRUE, model |-> TRUE, prompt |-> "str", messages |-> "absent"]
EmptyChatBody == [json |-> TRUE, model |-> TRUE, prompt |-> "absent", messages |-> "empty"]
WorkflowBody == [json |-> TRUE, model |-> FALSE, prompt |-> "str", messages |-> "absent"]
MethodBody == [json |-> TRUE, model |-> FALSE, prompt |-> "absent", messages |-> "absent"]

(* The words "generate", "chat", "stream", "prompt" a sub-path contains   *)
(* ('generate' in path, path == 'prompt').                                 *)
PathWords(path) ==
  CASE path = "api/generate" -> {"generate"}
    [] path = "api/chat" -> {"chat"}
    [] path = "prompt" -> {"prompt"}
    [] OTHER -> {}

OllamaRequests ==
  { [method |-> "POST", path |-> "api/generate", body |-> GenBody],
    [method |-> "POST", path |-> "api/chat", body |-> EmptyChatBody],
    [method |-> "GET", path |-> "api/tags", body |-> NoBody] }

ComfyRequests ==
  { [method |-> "POST", path |-> "prompt", body |-> WorkflowBody],
    [method |-> "GET", path |-> "history", body |-> NoBody] }

(* Upstream responses: status, Transfer-Encoding chunked, Content-Type     *)
(* class, and the shape of the body.                                       *)
OllamaResponses ==
  { [status |-> 200, chunked |-> TRUE, ctype |-> "ndjson", body |-> "stream", words |-> 0],
    [status |-> 200, chunked |-> FALSE, ctype |-> "json", body |-> "dict_response", words |-> 2],
    [status |-> 404, chunked |-> FALSE, ctype |-> "json", body |-> "dict", words |-> 0],
    [status |-> 200, chunked |-> FALSE, ctype |-> "json", body |-> "invalid", words |-> 0] }

ComfyResponses ==
  { [status |-> 200, chunked |-> FALSE, ctype |-> "json", body |-> "dict_prompt_id", words |-> 0],
    [status |-> 400, chunked |-> FALSE, ctype |-> "json", body |-> "dict", words |-> 0],
    [status |-> 200, chunked |-> FALSE, ctype |-> "image", body |-> "bytes", words |-> 0] }

(* requests.Response.ok *)
ResponseOk(resp) == resp.status < 400

(* One chunk of a streamed upstream body: whether json.loads accepts it,   *)
(* whether the object has a 'response' field, and that field's word count. *)
ChunkKinds ==
  { [json |-> TRUE, response |-> TRUE, words |-> 1],
    [json |-> TRUE, response |-> FALSE, words |-> 0],
    [json |-> FALSE, response |-> FALSE, words |-> 0] }

UpstreamErrors == {"connection refused", "timed out"}

(* ------------------------------- Init --------------------------------- *)
(* ------------------------ workflows and catalogs ---------------------- *)
(* WORKFLOW_REGISTRY, agent.py:337: the three workflows and the model     *)
(* files each one names, in the order of the dict.                         *)
WorkflowIds == <<"hunyuan_video_1.5_720p_t2v", "wan2.2_14B_t2v", "holocine">>

WORKFLOW_REGISTRY ==
  ("hunyuan_video_1.5_720p_t2v" :>
     [unet  |-> "hunyuanvideo1.5_720p_t2v_fp16.safetensors",
      vae   |-> "hunyuanvideo15_vae_fp16.safetensors",
      clip1 |-> "qwen_2.5_vl_7b_fp8_scaled.safetensors",
      clip2 |-> "byt5_small_glyphxl_fp16.safetensors"])
  @@ ("wan2.2_14B_t2v" :>
     [unet_high_noise |-> "wan2.2_t2v_high_noise_14B_fp8_scaled.safetensors",
      unet_low_noise  |-> "wan2.2_t2v_low_noise_14B_fp8_scaled.safetensors",
      vae  |-> "wan_2.1_vae.safetensors",
      clip |-> "umt5_xxl_fp8_e4m3fn_scaled.safetensors",
      lora_high_noise |-> "wan2.2_t2v_lightx2v_4steps_lora_v1.1_high_noise.safetensors",
      lora_low_noise  |-> "wan2.2_t2v_lightx2v_4steps_lora_v1.1_low_noise.safetensors"])
  @@ ("holocine" :>
     [unet_high |-> "Wan2_2-T2V-A14B-HIGH-HoloCine-full_fp8_e4m3fn_scaled_KJ.safetensors",
      unet_low  |-> "Wan2_2-T2V-A14B-LOW-HoloCine-full_fp8_e4m3fn_scaled_KJ.safetensors",
      vae  |-> "wan_2.1_vae.safetensors",
      clip |-> "umt5_xxl_fp8_e4m3fn_scaled.safetensors",
      lora |-> "lightx2v_T2V_14B_cfg_step_distill_v2_lora_rank64_bf16.safetensors"])

(* get_comfyui_models, 820-870: five slots, each the list /object_info    *)
(* gave or, when its first element is not a list of names, whatever it    *)
(* is.  NoCatalog is the {} of a ComfyUI that did not answer.             *)
CatalogSlots == <<"checkpoints", "vae", "clip", "loras", "unet">>
NoCatalog == <<>>
Names(list) == [list |-> TRUE, items |-> list]
NotAList == [list |-> FALSE, items |-> <<>>]

Catalog(checkpoints, vae, clip, loras, unet) ==
  [checkpoints |-> checkpoints, vae |-> vae, clip |-> clip, loras |-> loras, unet |-> unet]

WanFiles == WORKFLOW_REGISTRY["wan2.2_14B_t2v"]
HoloFiles == WORKFLOW_REGISTRY["holocine"]
HunyuanFiles == WORKFLOW_REGISTRY["hunyuan_video_1.5_720p_t2v"]

WanCatalog ==
  Catalog(Names(<<>>), Names(<<WanFiles.vae>>), Names(<<WanFiles.clip>>),
          Names(<<WanFiles.lora_high_noise, WanFiles.lora_low_noise>>),
          Names(<<WanFiles.unet_high_noise, WanFiles.unet_low_noise>>))

(* The catalogs a probe is taken to have observed: nothing, five empty     *)
(* lists, all of one workflow's files, one of them missing, two            *)
(* workflows' files, a workflow's files all listed under another slot,    *)
(* and a slot that is not a list.                                          *)
Catalogs ==
  << NoCatalog,
    Catalog(Names(<<>>), Names(<<>>), Names(<<>>), Names(<<>>), Names(<<>>)),
    WanCatalog,
    [WanCatalog EXCEPT !.loras = Names(<<WanFiles.lora_high_noise>>)],
    [WanCatalog EXCEPT !.loras = Names(<<WanFiles.lora_high_noise, WanFiles.lora_low_noise,
                                          HoloFiles.lora>>),
                       !.unet = Names(<<HoloFiles.unet_high, WanFiles.unet_high_noise,
                                         HoloFiles.unet_low, WanFiles.unet_low_noise>>)],
    Catalog(Names(<<HunyuanFiles.unet, HunyuanFiles.vae, HunyuanFiles.clip1,
                    HunyuanFiles.clip2>>),
            Names(<<>>), Names(<<>>), Names(<<>>), Names(<<>>)),
    [WanCatalog EXCEPT !.unet = NotAList] >>

(* ------------------------------- files -------------------------------- *)
(* agent.py (__file__), agent.py.new and agent.py.backup are directory     *)
(* entries naming files; a file that a thread has open stays the same      *)
(* file when the entry is renamed.                                         *)
(* node_state["hardware"]["gpu"], the list get_hardware_info builds: no    *)
(* GPU, or one whose memory is used to the given percentage.               *)
NoGpu == <<>>
Gpu(percent) == <<[memory_usage_percent |-> percent]>>

Threads == 0..NumHandlers
Inodes == 1..(NumHandlers + 4)
NoFile == [data |-> "free"]
Original == [data |-> "v1"]

(* hashlib.md5 of a file's data, 171-181, as a table without collisions.   *)
md5(data) ==
  CASE data = "v1" -> "0cc1"
    [] data = "v2" -> "9a0b"
    [] data = "junk" -> "e3d7"
    [] data = "part" -> "77c2"
    [] OTHER -> "d41d"

(* A thread's locals in check_for_updates, download_update, apply_update.  *)
(* path is the caller (startup, periodic, api); verified, applied and       *)
(* before record that download_update returned a path, that apply_update   *)
(* returned True, and what agent.py held when apply_update began.          *)
IdleUpdate ==
  [pc |-> "idle", path |-> "none", needsUpdate |-> FALSE, error |-> FALSE,
   fd |-> 0, hdr |-> None, body |-> "none",
   verified |-> FALSE, applied |-> FALSE, before |-> "none", payload |-> <<>>]

InitFiles ==
  /\ disk = [exe |-> 1, new |-> 0, backup |-> 0]
  /\ inodes = [i \in Inodes |-> IF i = 1 THEN Original ELSE NoFile]

(* The state of the part that advertises, and of the updater, once the     *)
(* process is up and nothing was observed or downloaded yet.               *)
InitAdvert ==
  /\ heartbeat_body = <<>>
  /\ heartbeat_answer = 0
  /\ response_body = <<>>
  /\ alive = TRUE

Threads0(pc) == [t \in Threads |-> IF t = 0 THEN [IdleUpdate EXCEPT !.pc = pc] ELSE IdleUpdate]

InitUpdater ==
  /\ hardware = NoGpu
  /\ no_update = FALSE
  /\ reachable = [s \in Services |-> FALSE]
  /\ restarts = 0
  /\ InitFiles
  /\ u = Threads0("loop")
  /\ heartbeat_counter = 0
  /\ cycle = 0

InitStats(s) ==
  IF s = "ollama"
  THEN [total_requests |-> 0, successful_requests |-> 0, failed_requests |-> 0,
        total_response_time_ms |-> 0, avg_response_time_ms |-> <<0, 1>>,
        min_response_time_ms |-> <<>>, max_response_time_ms |-> <<>>,
        requests_per_minute |-> 0, success_rate |-> <<100, 1>>, current_queue_depth |-> 0,
        recent_response_times |-> <<>>, requests_last_minute |-> <<>>,
        last_error |-> None, last_error_time |-> <<>>,
        tokens_generated |-> 0, tokens_per_second_avg |-> <<0, 1>>]
  ELSE [total_requests |-> 0, successful_requests |-> 0, failed_requests |-> 0,
        total_response_time_ms |-> 0, avg_response_time_ms |-> <<0, 1>>,
        min_response_time_ms |-> <<>>, max_response_time_ms |-> <<>>,
        requests_per_minute |-> 0, success_rate |-> <<100, 1>>, current_queue_depth |-> 0,
        recent_response_times |-> <<>>, requests_last_minute |-> <<>>,
        last_error |-> None, last_error_time |-> <<>>,
        renders_completed |-> 0, avg_render_time_ms |-> <<0, 1>>]

(* A handler thread's locals.  upstream ("not called", "answered", or the  *)
(* message of the exception the call raised), recorded (update_stats has   *)
(* run), rival (another request set the service's current_job while this   *)
(* one was being served), overwrote (this request replaced a job in        *)
(* current_job), outcome and reply describe what happened to the           *)
(* request; sent, delivered and snap (the upstream's chunks, the client's  *)
(* chunks, the service's state when the request was accepted) are kept in  *)
(* serial runs only; cut is the value of the slice of line 505 before it   *)
(* is stored.                                                              *)
IdleHandler ==
  [pc |-> "idle", ep |-> "none", svc |-> "none", req |-> [method |-> "none"],
   id |-> 0, start |-> 0, dur |-> 0, unow |-> 0, reg |-> 0, tokens |-> 0, nchunks |-> 0,
   success |-> TRUE, error |-> None, ret |-> "none", resp |-> NoResp, job |-> NoJob,
   status |-> 0, job_status |-> None, streamed |-> FALSE, upstream |-> "not called", recorded |-> FALSE,
   rival |-> FALSE, overwrote |-> FALSE, save_failed |-> FALSE,
   outcome |-> "none", reply |-> [status |-> 0, error |-> None],
   sent |-> <<>>, delivered |-> <<>>, snap |-> <<>>, cut |-> <<>>, buf |-> <<>>]

(* load_config, 74-84: a file that is there and parses replaces the       *)
(* defaults of line 68; a missing or unparsable one leaves them.           *)
Absent == [state |-> "absent", models |-> <<>>, workflows |-> <<>>]
Torn == [state |-> "torn", models |-> <<>>, workflows |-> <<>>]
File(models, workflows) == [state |-> "complete", models |-> models, workflows |-> workflows]

load_config(file) ==
  IF file.state = "complete"
  THEN [ollama_disabled_models |-> file.models, comfyui_disabled_workflows |-> file.workflows]
  ELSE [ollama_disabled_models |-> <<>>, comfyui_disabled_workflows |-> <<>>]

InitConfig(file) ==
  /\ config_file = file
  /\ model_config = load_config(file).ollama_disabled_models
  /\ disabled_workflows = load_config(file).comfyui_disabled_workflows

(* update_services at startup, 2768: what the first probe observed. *)
InitNode(up, observed, catalog) ==
  /\ node_state = [s \in Services |->
                     [available |-> up[s], models |-> IF s = "ollama" THEN observed ELSE <<>>,
                      current_job |-> NoJob, jobs_completed |-> 0]]
  /\ models_info = catalog

InitMemory ==
  /\ now = 0
  /\ calls = 0
  /\ h = [r \in Handlers |-> IdleHandler]
  /\ agent_stats = [s \in Services |-> InitStats(s)]
  /\ jobs_history = <<>>
  /\ communication_logs = [s \in Services |-> <<>>]
  /\ last_heartbeat = <<>>

InitState ==
  /\ InitMemory
  /\ InitNode([s \in Services |-> FALSE], <<>>, NoCatalog)
  /\ InitConfig(Absent)

(* --server is given or not (agent.py:2759). *)
CentralServers == {None, "http://server"}

Init == serial = FALSE /\ central_server = None /\ InitState /\ InitAdvert /\ InitUpdater
InitSeq ==
  serial = TRUE /\ central_server \in CentralServers /\ InitState /\ InitAdvert /\ InitUpdater

(* ------------------------- communication log -------------------------- *)
Raise == "<raise>"

(* summarize(obj), agent.py:469-485.  A dict with a 'prompt' key takes     *)
(* len() of it; a dict with 'model' and no 'prompt' evaluates              *)
(* obj.get('messages', [{}])[0], which raises IndexError on [].            *)
summarize(obj) ==
  IF obj = NoBody THEN None
  ELSE IF obj.prompt # "absent"
       THEN (IF obj.prompt = "int" THEN Raise ELSE "[Workflow with N nodes]")
  ELSE IF obj.model
       THEN (IF obj.messages = "empty" THEN Raise ELSE "model=m, prompt=p...")
  ELSE "str(obj)"

(* add_log_entry, agent.py:465-505: the entry is built (summarize may      *)
(* raise), prepended and the ring cut to MAX_LOG_ENTRIES.  The response    *)
(* objects the handlers log (a string, or a dict without 'prompt' and      *)
(* 'messages') never make summarize raise, so only request data is kept.   *)
LogRaises(data) == summarize(data) = Raise

add_log_entry(logs, service, direction, endpoint, data, error) ==
  IF service \in DOMAIN logs
  THEN [logs EXCEPT ![service] =
          Prefix(<<[direction |-> direction, endpoint |-> endpoint,
                    data_summary |-> summarize(data), error |-> error]>> \o @,
                 MAX_LOG_ENTRIES)]
  ELSE logs

(* ------------------------------ statistics ---------------------------- *)
(* update_stats, agent.py:532-585, in the order of its statements.         *)
(* "total_requests += 1" (538): the write-back of the value read plus one. *)
us_write_total(st, read) == [st EXCEPT !.total_requests = read + 1]

(* A mutant: the failure is counted as a success. *)
us_write_outcome_as_success(st, read, success, error, t) ==
  [st EXCEPT !.successful_requests = read + 1]

(* 539-544: the success or the failure counter, written back from the      *)
(* value read; on failure also last_error and last_error_time.             *)
us_write_outcome(st, read, success, error, t) ==
  IF success
  THEN [st EXCEPT !.successful_requests = read + 1]
  ELSE [st EXCEPT !.failed_requests = read + 1,
                  !.last_error = error, !.last_error_time = <<t>>]

us_read_outcome(st, success) ==
  IF success THEN st.successful_requests ELSE st.failed_requests

(* 546-573: response times, rolling window, average, min/max, success rate *)
(* and the sliding one-minute window.                                      *)
last_minute(stamps, t) == SelectSeq(stamps, LAMBDA x : x > t - RPM_WINDOW_SECS)

us_times(st, duration_ms, t) ==
  LET recent == Suffix(Append(st.recent_response_times, duration_ms), STATS_HISTORY_SIZE)
      stamps == last_minute(Append(st.requests_last_minute, t), t)
  IN [st EXCEPT
        !.total_response_time_ms = @ + duration_ms,
        !.recent_response_times = recent,
        !.avg_response_time_ms = Rat(SumSeq(recent), Len(recent)),
        !.min_response_time_ms =
            IF @ = <<>> \/ duration_ms < @[1] THEN <<duration_ms>> ELSE @,
        !.max_response_time_ms =
            IF @ = <<>> \/ duration_ms > @[1] THEN <<duration_ms>> ELSE @,
        !.success_rate =
            IF st.total_requests > 0
            THEN Rat(st.successful_requests * 100, st.total_requests) ELSE @,
        !.requests_last_minute = stamps,
        !.requests_per_minute = Len(stamps)]

(* 575-584: token throughput, for the LLM service only.                    *)
us_tokens(st, service, duration_ms, tokens) ==
  IF service = "ollama" /\ tokens > 0
  THEN [st EXCEPT
          !.tokens_generated = @ + tokens,
          !.tokens_per_second_avg =
             IF duration_ms > 0
             THEN (IF @ = <<0, 1>>
                   THEN Rat(tokens * 1000, duration_ms)
                   ELSE Rat(@[1] * duration_ms + tokens * 1000 * @[2],
                            2 * @[2] * duration_ms))
             ELSE @]
  ELSE st

(* --------------------------- handler threads -------------------------- *)
(* The server runs each request in a thread of its own                     *)
(* (app.run(..., threaded=True), agent.py:2826); the handlers share the    *)
(* module's globals and take no lock.  A handler is a sequence of steps,   *)
(* each one read or write of shared state at a time where the order        *)
(* matters.                                                                *)
Active(hr) == hr.pc \notin {"idle", "done"}
Free(r) == ~Active(h[r]) /\ \A q \in Handlers : q < r => Active(h[q])

(* A request can be taken by the first free thread; in a serial run only   *)
(* when no other request is being served.                                  *)
CanAccept(r) ==
  /\ alive
  /\ u[0].path # "startup"
  /\ calls < MaxCalls
  /\ Free(r)
  /\ serial => u[0].pc = "loop" /\ \A q \in Handlers : ~Active(h[q]) /\ u[q].pc = "idle"

Accept(r, ep, s, req) ==
  [IdleHandler EXCEPT !.pc = "accepted", !.ep = ep, !.svc = s, !.req = req,
     !.id = calls + 1, !.start = now,
     !.snap = IF serial /\ s \in Services
              THEN <<[stats |-> agent_stats[s],
                      jobs_completed |-> node_state[s].jobs_completed]>>
              ELSE <<>>]

(* The handler is over: its locals are dead, what remains is what the      *)
(* client got and what the call did.                                       *)
Done(hr, outcome, status, error) ==
  [hr EXCEPT !.pc = "done", !.outcome = outcome, !.reply = [status |-> status, error |-> error],
     !.start = 0, !.dur = 0, !.unow = 0, !.reg = 0, !.success = TRUE, !.error = None,
     !.ret = "none", !.resp = NoResp, !.job = NoJob, !.nchunks = 0, !.tokens = 0,
     !.status = 0, !.job_status = None]

(* Every other request to service s that is being served learns that      *)
(* current_job of s was set behind its back.                               *)
Mark(hh, r, s) ==
  [q \in Handlers |->
     IF q # r /\ Active(hh[q]) /\ hh[q].svc = s THEN [hh[q] EXCEPT !.rival = TRUE] ELSE hh[q]]

NewJob(type, id) ==
  [type |-> type, id |-> id, started_at |-> now, status |-> "absent",
   completed_at |-> <<>>, prompt_id |-> "absent", service |-> "absent"]

SetJob(s, job) == [node_state EXCEPT ![s].current_job = job]

(* ---- update_stats(service, duration_ms, success, error, tokens) ------ *)
CallUpdateStats(hr, success, error, dur, tokens, ret) ==
  [hr EXCEPT !.pc = "us_read_total", !.success = success, !.error = error,
             !.dur = dur, !.tokens = tokens, !.ret = ret]

(* 535, 538: now = datetime.now(); load of total_requests. *)
UsReadTotal(r) ==
  /\ h[r].pc = "us_read_total"
  /\ h' = [h EXCEPT ![r].pc = "us_write_total", ![r].unow = now,
                    ![r].reg = agent_stats[h[r].svc].total_requests]
  /\ UNCHANGED <<now, serial, ext, conf, calls, agent_stats, node_state, jobs_history, communication_logs>>

(* 538: store of total_requests. *)
UsWriteTotal(r) ==
  /\ h[r].pc = "us_write_total"
  /\ agent_stats' = [agent_stats EXCEPT ![h[r].svc] = us_write_total(@, h[r].reg)]
  /\ h' = [h EXCEPT ![r].pc = "us_read_outcome", ![r].reg = 0]
  /\ UNCHANGED <<now, serial, ext, conf, calls, node_state, jobs_history, communication_logs>>

(* 539-542: load of the success or failure counter. *)
UsReadOutcome(r) ==
  /\ h[r].pc = "us_read_outcome"
  /\ h' = [h EXCEPT ![r].pc = "us_write_outcome",
                    ![r].reg = us_read_outcome(agent_stats[h[r].svc], h[r].success)]
  /\ UNCHANGED <<now, serial, ext, conf, calls, agent_stats, node_state, jobs_history, communication_logs>>

(* 540-544: store of the counter (and of last_error). *)
UsWriteOutcome(r) ==
  /\ h[r].pc = "us_write_outcome"
  /\ agent_stats' = [agent_stats EXCEPT ![h[r].svc] =
                       us_write_outcome(@, h[r].reg, h[r].success, h[r].error, h[r].unow)]
  /\ h' = [h EXCEPT ![r].pc = "us_rest", ![r].reg = 0]
  /\ UNCHANGED <<now, serial, ext, conf, calls, node_state, jobs_history, communication_logs>>

(* 546-584, then the return to the caller (ret).  A handler that has       *)
(* nothing left to do after update_stats returns its response here.        *)
UsRest(r) ==
  /\ h[r].pc = "us_rest"
  /\ agent_stats' = [agent_stats EXCEPT ![h[r].svc] =
                       us_tokens(us_times(@, h[r].dur, h[r].unow),
                                 h[r].svc, h[r].dur, h[r].tokens)]
  /\ h' = [h EXCEPT ![r] =
             IF h[r].ret = "done"
             THEN Done([@ EXCEPT !.recorded = TRUE], "ok", 200, None)
             ELSE [@ EXCEPT !.pc = h[r].ret, !.recorded = TRUE]]
  /\ UNCHANGED <<now, serial, ext, conf, calls, node_state, jobs_history, communication_logs>>

update_stats(r) ==
  \/ UsReadTotal(r)
  \/ UsWriteTotal(r)
  \/ UsReadOutcome(r)
  \/ UsWriteOutcome(r)
  \/ UsRest(r)

(* ------------------------------ proxies ------------------------------- *)
Writes(req) == req.method \in {"POST", "PUT"}
IsGeneration(path) == PathWords(path) \cap {"generate", "chat"} # {}
IsProxy(ep) == ep \in {"proxy_ollama", "proxy_comfyui"}

(* 2488-2490 / 2510, 2596-2598 / 2618: what the request log entry is       *)
(* built from.                                                             *)
RequestData(s, req) ==
  IF Writes(req) THEN req.body ELSE IF s = "ollama" THEN NoBody ELSE MethodBody

(* 2488, 2493 / 2596, 2601: the requests that start job tracking. *)
Tracked(s, req) ==
  /\ Writes(req)
  /\ IF s = "ollama" THEN IsGeneration(req.path) ELSE req.path = "prompt"

(* Where a handler goes on after "clear" and after "count_write": the      *)
(* proxy clears current_job and then counts the job (2545-2546,            *)
(* 2563-2564), on its error path it only clears (2577-2578); the job       *)
(* endpoints count first and clear last (1989-1990, 2707-2708).            *)
After(hr) ==
  CASE hr.pc = "clear" /\ IsProxy(hr.ep) /\ hr.success -> "count_read"
    [] hr.pc = "clear" /\ IsProxy(hr.ep) /\ ~hr.success -> "done"
    [] hr.pc = "clear" /\ hr.ep = "api_job_complete" -> "done"
    [] hr.pc = "clear" /\ hr.ep = "api_comfyui_job_complete" -> "log"
    [] hr.pc = "count_write" /\ IsProxy(hr.ep) -> "done"
    [] hr.pc = "count_write" /\ ~IsProxy(hr.ep) -> "clear"

(* What the client gets when the handler returns normally, or after its    *)
(* except clause: 200, or 500 with {"error": str(e)}.                      *)
Return(hr) ==
  IF IsProxy(hr.ep) /\ ~hr.success
  THEN Done(hr, "error", 500, hr.error)
  ELSE Done(hr, "ok", 200, None)

Goto(hr, pc) == IF pc = "done" THEN Return(hr) ELSE [hr EXCEPT !.pc = pc]

(* proxy_ollama, 2484-2499 / 2510: start_time, the body, the request log   *)
(* entry and, for a POST or PUT whose path contains 'generate' or 'chat',  *)
(* the new current_job.  An exception in the log call lands in the except  *)
(* clause before anything is sent upstream.                                *)
ProxyOllamaBegin(r) ==
  /\ CanAccept(r)
  /\ \E req \in OllamaRequests :
       LET hr == Accept(r, "proxy_ollama", "ollama", req)
           data == RequestData("ollama", req)
           tracked == Tracked("ollama", req)
       IN IF LogRaises(data)
          THEN /\ h' = [h EXCEPT ![r] = [hr EXCEPT !.pc = "except", !.error = "IndexError"]]
               /\ UNCHANGED <<node_state, communication_logs>>
          ELSE /\ communication_logs' =
                    add_log_entry(communication_logs, "ollama", "send", req.path, data, None)
               /\ node_state' =
                    IF tracked
                    THEN SetJob("ollama", NewJob(IF "generate" \in PathWords(req.path)
                                                 THEN "generation" ELSE "chat", hr.id))
                    ELSE node_state
               /\ h' = IF tracked
                       THEN [Mark(h, r, "ollama") EXCEPT ![r] =
                               [hr EXCEPT !.pc = "upstream",
                                  !.overwrote = node_state["ollama"].current_job # NoJob]]
                       ELSE [h EXCEPT ![r] = [hr EXCEPT !.pc = "upstream"]]
  /\ calls' = calls + 1
  /\ UNCHANGED <<now, serial, ext, conf, agent_stats, jobs_history>>

IsStreamed(hr, resp) == resp.chunked \/ "stream" \in PathWords(hr.req.path)

(* 2556-2558: tokens of a non-streamed response. *)
ResponseTokens(resp) == IF resp.body = "dict_response" THEN resp.words ELSE 0

DurationMs(hr) == (now - hr.start) * 1000

(* 2501-2516, 2519, 2548 / 2551-2559: the upstream call.  It raises, or    *)
(* answers; a chunked answer is handed to the server as a generator, any   *)
(* other is parsed (response.json() raises on an invalid body), logged     *)
(* and recorded as a success whatever its status.                          *)
OllamaUpstream(r) ==
  /\ h[r].pc = "upstream"
  /\ h[r].ep = "proxy_ollama"
  /\ \/ \E e \in UpstreamErrors :
          /\ h' = [h EXCEPT ![r].pc = "except", ![r].error = e, ![r].upstream = e]
          /\ UNCHANGED communication_logs
     \/ \E resp \in OllamaResponses :
          LET hr == [h[r] EXCEPT !.upstream = "answered", !.status = resp.status] IN
          IF IsStreamed(hr, resp)
          THEN /\ h' = [h EXCEPT ![r] = [hr EXCEPT !.pc = "stream", !.streamed = TRUE]]
               /\ UNCHANGED communication_logs
          ELSE IF resp.body = "invalid"
          THEN /\ h' = [h EXCEPT ![r] = [hr EXCEPT !.pc = "except", !.error = "JSONDecodeError"]]
               /\ UNCHANGED communication_logs
          ELSE /\ communication_logs' =
                    add_log_entry(communication_logs, "ollama", "receive", hr.req.path, NoBody, None)
               /\ h' = [h EXCEPT ![r] =
                          CallUpdateStats(hr, TRUE, None, DurationMs(hr), ResponseTokens(resp), "check")]
  /\ UNCHANGED <<now, serial, ext, conf, calls, agent_stats, node_state, jobs_history>>

(* A mutant: every chunk that parses counts for one token. *)
ChunkTokens_per_chunk(c) == IF c.json THEN 1 ELSE 0

(* 2528-2533: len(chunk_data['response'].split()) for a chunk that parses  *)
(* and has the field, else nothing.                                        *)
ChunkTokens(c) == IF c.json /\ c.response THEN c.words ELSE 0

(* 2523-2534: one pass of the generator's loop: the chunk read from the    *)
(* upstream is counted and then yielded as it is.                          *)
stream_chunk(hr, c) ==
  [hr EXCEPT !.nchunks = @ + 1, !.tokens = @ + ChunkTokens(c),
             !.sent = IF serial THEN Append(@, c) ELSE @,
             !.delivered = IF serial THEN Append(@, c) ELSE @]

(* The generator runs while the server writes the response.  Either the    *)
(* next chunk is read and yielded (the upstream's last one, or not), or    *)
(* the generator stops at its yield: the server closes it when the client  *)
(* has gone away, and an upstream read error propagates out of it.  The    *)
(* handler's try block has returned by then, so neither the code after     *)
(* the loop nor the except clause runs.                                    *)
OllamaStream(r) ==
  /\ h[r].pc = "stream"
  /\ \/ \E c \in ChunkKinds, last \in BOOLEAN :
          h' = [h EXCEPT ![r] =
                  [stream_chunk(@, c) EXCEPT
                     !.pc = IF last \/ h[r].nchunks + 1 >= MaxChunks THEN "eof" ELSE "stream"]]
     \/ \E o \in {"client_disconnected", "upstream_read_error"} :
          h' = [h EXCEPT ![r] = Done(@, o, 200, None)]
  /\ UNCHANGED <<now, serial, ext, conf, calls, agent_stats, node_state, jobs_history, communication_logs>>

(* 2537-2541: after the last chunk was yielded: duration, response log,    *)
(* update_stats.                                                           *)
OllamaStreamEnd(r) ==
  /\ h[r].pc = "eof"
  /\ communication_logs' =
       add_log_entry(communication_logs, "ollama", "receive", h[r].req.path, NoBody, None)
  /\ h' = [h EXCEPT ![r] = CallUpdateStats(@, TRUE, None, DurationMs(@), h[r].tokens, "check")]
  /\ UNCHANGED <<now, serial, ext, conf, calls, agent_stats, node_state, jobs_history>>

(* A mutant: the except clause forgets the job. *)
CompletesJob_on_success_only(hr) ==
  /\ node_state[hr.svc].current_job # NoJob
  /\ hr.success
  /\ hr.ep = "proxy_ollama" /\ (hr.streamed \/ IsGeneration(hr.req.path))

(* The test that guards the end of job tracking: 2544 (streamed), 2562    *)
(* (not streamed), 2577 / 2671 (except clause).                            *)
CompletesJob(hr) ==
  /\ node_state[hr.svc].current_job # NoJob
  /\ \/ ~hr.success
     \/ hr.ep = "proxy_ollama" /\ (hr.streamed \/ IsGeneration(hr.req.path))

(* job remembers the object the handler is about to drop. *)
ProxyCheck(r) ==
  /\ h[r].pc = "check"
  /\ h' = [h EXCEPT ![r] =
             IF CompletesJob(@)
             THEN [@ EXCEPT !.pc = "clear", !.job = node_state[h[r].svc].current_job]
             ELSE Return(@)]
  /\ UNCHANGED <<now, serial, ext, conf, calls, agent_stats, node_state, jobs_history, communication_logs>>

(* current_job = None: 2545, 2563, 2578, 2672, 1990, 1999, 2708. *)
ClearJob(r) ==
  /\ h[r].pc = "clear"
  /\ node_state' = SetJob(h[r].svc, NoJob)
  /\ h' = [h EXCEPT ![r] = Goto(@, After(@))]
  /\ UNCHANGED <<now, serial, ext, conf, calls, agent_stats, jobs_history, communication_logs>>

(* jobs_completed += 1 (2546, 2564, 1989, 1998, 2707): the load ...        *)
CountRead(r) ==
  /\ h[r].pc = "count_read"
  /\ h' = [h EXCEPT ![r].pc = "count_write", ![r].reg = node_state[h[r].svc].jobs_completed]
  /\ UNCHANGED <<now, serial, ext, conf, calls, agent_stats, node_state, jobs_history, communication_logs>>

(* ... and the store. *)
CountWrite(r) ==
  /\ h[r].pc = "count_write"
  /\ node_state' = [node_state EXCEPT ![h[r].svc].jobs_completed = h[r].reg + 1]
  /\ h' = [h EXCEPT ![r] = Goto([@ EXCEPT !.reg = 0], After(@))]
  /\ UNCHANGED <<now, serial, ext, conf, calls, agent_stats, jobs_history, communication_logs>>

(* The except clause of both proxies, 2568-2574 / 2662-2668: the error     *)
(* log entry and update_stats(service, duration_ms, False, error).         *)
ProxyExcept(r) ==
  /\ h[r].pc = "except"
  /\ communication_logs' =
       add_log_entry(communication_logs, h[r].svc, "receive", h[r].req.path, NoBody, h[r].error)
  /\ h' = [h EXCEPT ![r] = CallUpdateStats(@, FALSE, h[r].error, DurationMs(@), 0, "check")]
  /\ UNCHANGED <<now, serial, ext, conf, calls, agent_stats, node_state, jobs_history>>

(* proxy_comfyui, 2592-2608 / 2618: as proxy_ollama; the tracked request   *)
(* is the POST or PUT whose path is 'prompt'.                              *)
ProxyComfyBegin(r) ==
  /\ CanAccept(r)
  /\ \E req \in ComfyRequests :
       LET hr == Accept(r, "proxy_comfyui", "comfyui", req)
           data == RequestData("comfyui", req)
           tracked == Tracked("comfyui", req)
       IN IF LogRaises(data)
          THEN /\ h' = [h EXCEPT ![r] = [hr EXCEPT !.pc = "except", !.error = "TypeError"]]
               /\ UNCHANGED <<node_state, communication_logs>>
          ELSE /\ communication_logs' =
                    add_log_entry(communication_logs, "comfyui", "send", req.path, data, None)
               /\ node_state' = IF tracked THEN SetJob("comfyui", NewJob("render", hr.id))
                                ELSE node_state
               /\ h' = IF tracked
                       THEN [Mark(h, r, "comfyui") EXCEPT ![r] =
                               [hr EXCEPT !.pc = "upstream",
                                  !.overwrote = node_state["comfyui"].current_job # NoJob]]
                       ELSE [h EXCEPT ![r] = [hr EXCEPT !.pc = "upstream"]]
  /\ calls' = calls + 1
  /\ UNCHANGED <<now, serial, ext, conf, agent_stats, jobs_history>>

IsBinary(resp) == resp.ctype \in {"image", "video", "audio", "octet-stream"}

(* 2610-2653: the upstream call, the duration, the response log and        *)
(* update_stats(.., response.ok).  A binary answer is returned right       *)
(* after (2635); any other goes on to the prompt_id bookkeeping.           *)
ComfyUpstream(r) ==
  /\ h[r].pc = "upstream"
  /\ h[r].ep = "proxy_comfyui"
  /\ \/ \E e \in UpstreamErrors :
          /\ h' = [h EXCEPT ![r].pc = "except", ![r].error = e, ![r].upstream = e]
          /\ UNCHANGED communication_logs
     \/ \E resp \in ComfyResponses :
          LET hr == [h[r] EXCEPT !.upstream = "answered", !.status = resp.status, !.resp = resp] IN
          /\ communication_logs' =
               add_log_entry(communication_logs, "comfyui", "receive", hr.req.path, NoBody, None)
          /\ h' = [h EXCEPT ![r] =
                     CallUpdateStats(hr, ResponseOk(resp), None, DurationMs(hr), 0,
                                     IF IsBinary(resp) THEN "done" ELSE "prompt_id")]
  /\ UNCHANGED <<now, serial, ext, conf, calls, agent_stats, node_state, jobs_history>>

(* 2656-2657: is there a prompt_id to remember, and a current_job? *)
ComfyPromptId(r) ==
  /\ h[r].pc = "prompt_id"
  /\ h' = [h EXCEPT ![r] =
             IF /\ @.req.path = "prompt"
                /\ @.resp.body = "dict_prompt_id"
                /\ node_state["comfyui"].current_job # NoJob
             THEN [@ EXCEPT !.pc = "set_prompt_id"]
             ELSE Done(@, "ok", 200, None)]
  /\ UNCHANGED <<now, serial, ext, conf, calls, agent_stats, node_state, jobs_history, communication_logs>>

(* 2658: current_job['prompt_id'] = ...; current_job is read again, and    *)
(* None is not subscriptable: the TypeError lands in the except clause.    *)
ComfySetPromptId(r) ==
  /\ h[r].pc = "set_prompt_id"
  /\ IF node_state["comfyui"].current_job = NoJob
     THEN /\ h' = [h EXCEPT ![r].pc = "except", ![r].error = "TypeError"]
          /\ UNCHANGED node_state
     ELSE /\ node_state' = [node_state EXCEPT !["comfyui"].current_job.prompt_id = "p1"]
          /\ h' = [h EXCEPT ![r] = Done(@, "ok", 200, None)]
  /\ UNCHANGED <<now, serial, ext, conf, calls, agent_stats, jobs_history, communication_logs>>

(* --------------------------- job endpoints ---------------------------- *)
JobServices == {"ollama", "comfyui", "gpu"}
JobStatuses == {"completed", "failed"}

(* 1968-1971, 1982-1999: 'ollama' names the LLM service, anything else     *)
(* the RENDER service.                                                     *)
JobKey(service) == IF service = "ollama" THEN "ollama" ELSE "comfyui"

(* api_job_start, 1954-1973: one store of current_job. *)
api_job_start(r) ==
  /\ CanAccept(r)
  /\ \E service \in JobServices :
       /\ node_state' = SetJob(JobKey(service), NewJob("generation", calls + 1))
       /\ h' = [Mark(h, r, JobKey(service)) EXCEPT ![r] =
                  Done(Accept(r, "api_job_start", JobKey(service),
                              [method |-> "POST", service |-> service]),
                       "ok", 200, None)]
  /\ calls' = calls + 1
  /\ UNCHANGED <<now, serial, ext, conf, agent_stats, jobs_history, communication_logs>>

(* api_job_complete, 1979-1984 / 1992-1993: job = current_job; if job. *)
JobCompleteBegin(r) ==
  /\ CanAccept(r)
  /\ \E service \in JobServices, status \in JobStatuses :
       LET hr == Accept(r, "api_job_complete", JobKey(service),
                        [method |-> "POST", service |-> service])
           job == node_state[JobKey(service)].current_job
       IN h' = [h EXCEPT ![r] =
                  [hr EXCEPT !.job = job, !.job_status = status,
                             !.pc = IF job # NoJob THEN "history" ELSE "clear"]]
  /\ calls' = calls + 1
  /\ UNCHANGED <<now, serial, ext, conf, agent_stats, node_state, jobs_history, communication_logs>>

(* api_comfyui_job_complete, 2694-2697: if current_job. *)
ComfyJobCompleteBegin(r) ==
  /\ CanAccept(r)
  /\ \E status \in JobStatuses :
       LET hr == Accept(r, "api_comfyui_job_complete", "comfyui", [method |-> "POST"]) IN
       h' = [h EXCEPT ![r] =
               IF node_state["comfyui"].current_job # NoJob
               THEN [hr EXCEPT !.job_status = status, !.pc = "history"]
               ELSE Done(hr, "ok", 200, None)]
  /\ calls' = calls + 1
  /\ UNCHANGED <<now, serial, ext, conf, agent_stats, node_state, jobs_history, communication_logs>>

(* 1985-1988, 1994-1997, 2698-2705: the job object gets completed_at and   *)
(* status (in place: current_job shows them while it is still that         *)
(* object) and goes to the front of jobs_history, which is cut to 50.      *)
(* /comfyui/queue/complete reads current_job again (2698) and stores a     *)
(* copy tagged with the service; on None the subscript raises and the      *)
(* server answers 500.                                                     *)
JobHistory(r) ==
  /\ h[r].pc = "history"
  /\ LET own == h[r].ep = "api_job_complete"
         job == IF own THEN h[r].job ELSE node_state["comfyui"].current_job
         fin == [job EXCEPT !.completed_at = <<now>>, !.status = h[r].job_status]
         cur == node_state[h[r].svc].current_job
     IN IF job = NoJob
        THEN /\ h' = [h EXCEPT ![r] = Done(@, "error", 500, "TypeError")]
             /\ UNCHANGED <<node_state, jobs_history>>
        ELSE /\ node_state' = IF cur # NoJob /\ cur.id = job.id
                              THEN SetJob(h[r].svc, fin) ELSE node_state
             /\ jobs_history' =
                  Prefix(<<IF own THEN fin ELSE [fin EXCEPT !.service = "comfyui"]>> \o jobs_history,
                         JOBS_HISTORY_SIZE)
             /\ h' = [h EXCEPT ![r].pc = "count_read", ![r].job = fin]
  /\ UNCHANGED <<now, serial, ext, conf, calls, agent_stats, communication_logs>>

(* 2711-2714: the completion's log entry, then the answer. *)
ComfyJobLog(r) ==
  /\ h[r].pc = "log"
  /\ communication_logs' =
       add_log_entry(communication_logs, "comfyui", "receive", "/execution_complete", NoBody, None)
  /\ h' = [h EXCEPT ![r] = Done(@, "ok", 200, None)]
  /\ UNCHANGED <<now, serial, ext, conf, calls, agent_stats, node_state, jobs_history>>

(* ------------------------------ /stats/reset -------------------------- *)
(* The dict.update of api_stats_reset, 2188-2203: the listed fields go     *)
(* back to their initial values, the others stay.                          *)
reset_stats(st) ==
  [st EXCEPT !.total_requests = 0, !.successful_requests = 0, !.failed_requests = 0,
             !.total_response_time_ms = 0, !.avg_response_time_ms = <<0, 1>>,
             !.min_response_time_ms = <<>>, !.max_response_time_ms = <<>>,
             !.requests_per_minute = 0, !.success_rate = <<100, 1>>,
             !.current_queue_depth = 0,
             !.recent_response_times = <<>>, !.requests_last_minute = <<>>,
             !.last_error = None, !.last_error_time = <<>>]

(* 2187: the loop's first pass, over "ollama" ... *)
StatsResetBegin(r) ==
  /\ CanAccept(r)
  /\ h' = [h EXCEPT ![r] = [Accept(r, "api_stats_reset", "none", [method |-> "POST"])
                              EXCEPT !.pc = "reset_comfyui"]]
  /\ agent_stats' = [agent_stats EXCEPT !["ollama"] = reset_stats(@)]
  /\ calls' = calls + 1
  /\ UNCHANGED <<now, serial, ext, conf, node_state, jobs_history, communication_logs>>

(* ... and its second, over "comfyui". *)
StatsResetSecond(r) ==
  /\ h[r].pc = "reset_comfyui"
  /\ agent_stats' = [agent_stats EXCEPT !["comfyui"] = reset_stats(@)]
  /\ h' = [h EXCEPT ![r] = Done(@, "ok", 200, None)]
  /\ UNCHANGED <<now, serial, ext, conf, calls, node_state, jobs_history, communication_logs>>

(* -------------------- the other operations ---------------------------- *)
(* An endpoint that is one step: accepted and answered at once. *)
Answer(r, ep, status, error) ==
  Done(Accept(r, ep, "none", [method |-> "POST"]),
       IF status = 200 THEN "ok" ELSE "error", status, error)

(* The same, keeping what the request named. *)
Reply(r, ep, req, status, error) ==
  Done(Accept(r, ep, "none", req), IF status = 200 THEN "ok" ELSE "error", status, error)

(* A mutant: pruning also takes total_requests for the window's count. *)
prune_stats_and_total(st, t) ==
  [st EXCEPT !.requests_last_minute = last_minute(@, t),
             !.requests_per_minute = Len(last_minute(st.requests_last_minute, t)),
             !.total_requests = Len(last_minute(st.requests_last_minute, t))]

(* api_stats, 2132-2141: before reporting, both services' timestamp lists  *)
(* are cut to the last minute and requests_per_minute is rewritten.        *)
prune_stats(st, t) ==
  [st EXCEPT !.requests_last_minute = last_minute(@, t),
             !.requests_per_minute = Len(last_minute(st.requests_last_minute, t))]

(* Of the two answers, the request rate they report per service           *)
(* ("requests_per_minute", 2154 and 2170; "rpm", 2447 and 2458).           *)
RateBody(ep, stats) ==
  [ep |-> ep, status |-> 200, rpm |-> [s \in Services |-> stats[s].requests_per_minute]]

api_stats(r) ==
  /\ CanAccept(r)
  /\ agent_stats' = [s \in Services |-> prune_stats(agent_stats[s], now)]
  /\ response_body' = <<RateBody("api_stats", agent_stats')>>
  /\ h' = [h EXCEPT ![r] = Answer(r, "api_stats", 200, None)]
  /\ calls' = calls + 1
  /\ UNCHANGED <<now, serial, hardware, heartbeat_answer, conf, node_state, jobs_history,
                 communication_logs, updater, disabled_workflows, models_info,
                 heartbeat_body, alive>>

(* api_load_balance_info, 2430-2465: the stored figures, as they are. *)
api_load_balance_info(r) ==
  /\ CanAccept(r)
  /\ response_body' = <<RateBody("api_load_balance_info", agent_stats)>>
  /\ h' = [h EXCEPT ![r] = Answer(r, "api_load_balance_info", 200, None)]
  /\ calls' = calls + 1
  /\ UNCHANGED <<now, serial, hardware, heartbeat_answer, conf, agent_stats, node_state,
                 jobs_history, communication_logs, updater, disabled_workflows, models_info,
                 heartbeat_body, alive>>

(* api_logs_clear, 2099-2104. *)
LogServices == Services \cup {"gpu"}

api_logs_clear(r) ==
  /\ CanAccept(r)
  /\ \E service \in LogServices :
       IF service \notin DOMAIN communication_logs
       THEN /\ h' = [h EXCEPT ![r] = Reply(r, "api_logs_clear",
                                           [method |-> "POST", service |-> service],
                                           400, "Unknown service")]
            /\ UNCHANGED communication_logs
       ELSE /\ communication_logs' = [communication_logs EXCEPT ![service] = <<>>]
            /\ h' = [h EXCEPT ![r] = Reply(r, "api_logs_clear",
                                           [method |-> "POST", service |-> service],
                                           200, None)]
  /\ calls' = calls + 1
  /\ UNCHANGED <<now, serial, ext, conf, agent_stats, node_state, jobs_history>>

(* api_logs_service, 2090-2095. *)
api_logs_service(r) ==
  /\ CanAccept(r)
  /\ \E service \in LogServices :
       h' = [h EXCEPT ![r] =
               IF service \notin DOMAIN communication_logs
               THEN Reply(r, "api_logs_service", [method |-> "GET", service |-> service],
                          400, "Unknown service")
               ELSE Reply(r, "api_logs_service", [method |-> "GET", service |-> service],
                          200, None)]
  /\ calls' = calls + 1
  /\ UNCHANGED <<now, serial, ext, conf, agent_stats, node_state, jobs_history,
                 communication_logs>>

(* set_ollama_model_enabled, 111-121, on the list of disabled models:    *)
(* list.remove takes out the first occurrence, append adds at the end.     *)
ModelNames == {"a:1", "b:2"}
InList(x, list) == \E i \in 1..Len(list) : list[i] = x

RemoveFirst(list, x) ==
  LET i == CHOOSE k \in 1..Len(list) : list[k] = x /\ \A j \in 1..(k - 1) : list[j] # x
  IN SubSeq(list, 1, i - 1) \o SubSeq(list, i + 1, Len(list))

set_ollama_model_enabled(disabled, model_name, enabled) ==
  IF enabled /\ InList(model_name, disabled)
  THEN RemoveFirst(disabled, model_name)
  ELSE IF ~enabled /\ ~InList(model_name, disabled)
  THEN Append(disabled, model_name)
  ELSE disabled

(* is_ollama_model_enabled, 106-108. *)
is_ollama_model_enabled(model_name) == ~InList(model_name, model_config)

(* save_config, 87-96: the whole config is dumped over the file, or the    *)
(* write raises, which is caught and printed; the caller at line 121       *)
(* drops the result.                                                       *)
save_config(file, disabled, saved) ==
  IF saved THEN File(disabled, disabled_workflows) ELSE file

(* What a config request was and did: the model, the 'enabled' it gave     *)
(* and the config before it, in memory and on disk; when it repeats the    *)
(* request served just before it, also the config before that one.         *)
Repeats(hr, ep, model_name, enabled) ==
  /\ hr.pc = "done"
  /\ hr.ep = ep
  /\ hr.id = calls
  /\ "model" \in DOMAIN hr.req
  /\ hr.req.model = model_name
  /\ hr.req.enabled = enabled

ConfigCall(r, ep, model_name, enabled, failed) ==
  LET before == [model_config |-> model_config, config_file |-> config_file,
                 save_failed |-> failed]
  IN [Accept(r, ep, "none", [method |-> "POST", model |-> model_name, enabled |-> enabled])
        EXCEPT !.save_failed = failed,
               !.snap = IF Repeats(h[r], ep, model_name, enabled)
                        THEN <<before, h[r].snap[1]>> ELSE <<before>>]

(* api_models_toggle, 1915-1934: the answer is 200 whether the file was    *)
(* written or not.                                                         *)
api_models_toggle(r) ==
  /\ CanAccept(r)
  /\ \E model_name \in ModelNames \cup {None}, enabled \in {"true", "false", "omitted"},
        saved \in BOOLEAN :
       IF model_name = None
       THEN /\ saved
            /\ h' = [h EXCEPT ![r] = Answer(r, "api_models_toggle", 400, "Model name required")]
            /\ UNCHANGED <<model_config, config_file>>
       ELSE LET on == IF enabled = "omitted" THEN ~is_ollama_model_enabled(model_name)
                      ELSE enabled = "true"
            IN /\ model_config' = set_ollama_model_enabled(model_config, model_name, on)
               /\ config_file' = save_config(config_file, model_config', saved)
               /\ h' = [h EXCEPT ![r] =
                          Done(ConfigCall(r, "api_models_toggle", model_name, enabled, ~saved),
                               "ok", 200, None)]
  /\ calls' = calls + 1
  /\ UNCHANGED <<now, serial, ext, central_server, last_heartbeat, agent_stats, node_state,
                 jobs_history, communication_logs>>

(* api_models_set_enabled, 1937-1950: one set_ollama_model_enabled, and    *)
(* so one save_config, per entry of 'models', in the order of the dict;    *)
(* each write may fail by itself.  The answer is 200.                      *)
SetEnabledRequests ==
  { <<>>,
    <<[model |-> "a:1", enabled |-> FALSE]>>,
    <<[model |-> "a:1", enabled |-> TRUE], [model |-> "b:2", enabled |-> FALSE]>> }

RECURSIVE SetEach(_, _, _, _, _)
SetEach(disabled, file, models, k, failing) ==
  IF k > Len(models) THEN [disabled |-> disabled, file |-> file]
  ELSE LET d == set_ollama_model_enabled(disabled, models[k].model, models[k].enabled)
       IN SetEach(d, save_config(file, d, k \notin failing), models, k + 1, failing)

api_models_set_enabled(r) ==
  /\ CanAccept(r)
  /\ \E models \in SetEnabledRequests :
       \E failing \in SUBSET (1..Len(models)) :
         LET after == SetEach(model_config, config_file, models, 1, failing)
         IN /\ model_config' = after.disabled
            /\ config_file' = after.file
            /\ h' = [h EXCEPT ![r] =
                       Done(ConfigCall(r, "api_models_set_enabled", None, "given",
                                       failing # {}),
                            "ok", 200, None)]
  /\ calls' = calls + 1
  /\ UNCHANGED <<now, serial, ext, central_server, last_heartbeat, agent_stats, node_state,
                 jobs_history, communication_logs>>

(* api_update_check, 1837-1847, with check_for_updates, 184-202: a GET to  *)
(* the orchestrator; nothing of the agent's state is written.              *)
api_update_check(r) ==
  /\ CanAccept(r)
  /\ h' = [h EXCEPT ![r] =
             IF central_server = None
             THEN Answer(r, "api_update_check", 400, "No central server configured")
             ELSE Answer(r, "api_update_check", 200, None)]
  /\ calls' = calls + 1
  /\ UNCHANGED <<now, serial, ext, conf, agent_stats, node_state, jobs_history, communication_logs>>

(* The background thread's probe, update_services, 952-960, with           *)
(* check_ollama, 778-796, and check_comfyui, 799-817: each service         *)
(* answers or refuses; the LLM probe logs one entry, the RENDER probe one  *)
(* per endpoint it tried and one for /object_info.                         *)
Quiet == \A q \in Handlers : ~Active(h[q])
ProbeResults == {"ok", "refused"}
ComfyProbeEndpoints == <<"/system_stats", "/api/system_stats", "/queue", "/api/queue">>

RECURSIVE LogErrors(_, _, _, _)
LogErrors(logs, service, endpoints, error) ==
  IF endpoints = <<>> THEN logs
  ELSE LogErrors(add_log_entry(logs, service, "receive", Head(endpoints), NoBody, error),
                 service, Tail(endpoints), error)

(* What a probe does, given which services answer: the log entries, and   *)
(* lines 954-960 on node_state.  A service that answers lists the models   *)
(* and the catalog below.                                                  *)
ObservedModels == <<"a:1">>
ObservedCatalog == WanCatalog

Probe(up) ==
  LET l1 == add_log_entry(communication_logs, "ollama", "receive", "/api/tags", NoBody,
                          IF up["ollama"] THEN None ELSE "connection refused")
      l2 == IF up["comfyui"]
            THEN add_log_entry(
                   add_log_entry(l1, "comfyui", "receive", "/system_stats", NoBody, None),
                   "comfyui", "receive", "/object_info", NoBody, None)
            ELSE LogErrors(l1, "comfyui", ComfyProbeEndpoints, "connection refused")
  IN [logs |-> l2,
      node |-> [node_state EXCEPT
                  !["ollama"].available = up["ollama"],
                  !["ollama"].models = IF up["ollama"] THEN ObservedModels ELSE <<>>,
                  !["comfyui"].available = up["comfyui"]],
      info |-> IF up["comfyui"] THEN ObservedCatalog ELSE NoCatalog]

update_services ==
  /\ alive
  /\ calls < MaxCalls
  /\ Quiet
  /\ \E o \in ProbeResults, c \in ProbeResults :
       /\ reachable' = [s \in Services |-> IF s = "ollama" THEN o = "ok" ELSE c = "ok"]
       /\ communication_logs' = Probe(reachable').logs
       /\ node_state' = Probe(reachable').node
       /\ models_info' = Probe(reachable').info
  /\ calls' = calls + 1
  /\ UNCHANGED <<now, serial, hardware, heartbeat_answer, conf, h, agent_stats, jobs_history, disabled_workflows,
                 heartbeat_body, response_body, alive, no_update, restarts, disk, inodes, u,
                 heartbeat_counter, cycle>>

(* ----------------------------- advertising --------------------------- *)
(* A mutant: nothing is filtered out. *)
get_enabled_ollama_models_unfiltered(all_models, disabled) == all_models

(* get_enabled_ollama_models, 99-103. *)
get_enabled_ollama_models(all_models, disabled) ==
  SelectSeq(all_models, LAMBDA m : ~InList(m, disabled))

(* check_workflow_model_availability, 876-907: the slots' lists are        *)
(* flattened into one list (a slot that is not a list is skipped), every   *)
(* file the workflow names is looked up in it.  Flatten_unet_only is a     *)
(* mutant that looks into one slot only.                                   *)
Flatten_unet_only(info, slots) ==
  IF "unet" \in DOMAIN info /\ info["unet"].list THEN info["unet"].items ELSE <<>>

RECURSIVE Flatten(_, _)
Flatten(info, slots) ==
  IF slots = <<>> THEN <<>>
  ELSE (IF Head(slots) \in DOMAIN info /\ info[Head(slots)].list
        THEN info[Head(slots)].items ELSE <<>>) \o Flatten(info, Tail(slots))

check_workflow_model_availability(workflow_id, info) ==
  IF workflow_id \notin DOMAIN WORKFLOW_REGISTRY
  THEN [available |-> FALSE, error |-> "Unknown workflow"]
  ELSE LET required_models == WORKFLOW_REGISTRY[workflow_id]
           all_available_models == Flatten(info, CatalogSlots)
           models == [model_type \in DOMAIN required_models |->
                        [name |-> required_models[model_type],
                         available |-> InList(required_models[model_type],
                                              all_available_models)]]
       IN [workflow_id |-> workflow_id,
           all_available |-> \A model_type \in DOMAIN models : models[model_type].available,
           models |-> models]

(* avail.get("all_available", False) *)
AllAvailable(avail) == "all_available" \in DOMAIN avail /\ avail.all_available

ReadyWorkflows(info) ==
  SelectSeq(WorkflowIds,
            LAMBDA wf_id : AllAvailable(check_workflow_model_availability(wf_id, info)))

(* The heartbeat's payload, 969-997, without the host's identity and load. *)
HeartbeatPayload ==
  [ollama |-> [available |-> node_state["ollama"].available,
               models |-> get_enabled_ollama_models(node_state["ollama"].models, model_config),
               all_models |-> node_state["ollama"].models,
               current_job |-> node_state["ollama"].current_job,
               jobs_completed |-> node_state["ollama"].jobs_completed],
   comfyui |-> [available |-> node_state["comfyui"].available,
                models_info |-> models_info,
                current_job |-> node_state["comfyui"].current_job,
                jobs_completed |-> node_state["comfyui"].jobs_completed],
   workflows |-> [supported |-> WorkflowIds, ready |-> ReadyWorkflows(models_info)]]

(* send_heartbeat, 963-1012: nothing without a central server; else the    *)
(* payload is built and POSTed; the POST raises (status 0 here) or is      *)
(* answered, and last_heartbeat is set when response.ok (1007).            *)
HeartbeatAnswers == {0, 200, 304, 500}

(* A mutant: any answer counts, whatever its status. *)
HeartbeatOk_any_answer(status) == status # 0

HeartbeatOk(status) == status # 0 /\ ResponseOk([status |-> status])

Heartbeat(payload, status) ==
  IF central_server = None
  THEN status = 0 /\ UNCHANGED <<last_heartbeat, heartbeat_body, heartbeat_answer>>
  ELSE /\ heartbeat_body' = <<payload>>
       /\ heartbeat_answer' = status
       /\ last_heartbeat' = IF HeartbeatOk(status) THEN <<now>> ELSE last_heartbeat

send_heartbeat ==
  /\ alive
  /\ calls < MaxCalls
  /\ Quiet
  /\ \E status \in HeartbeatAnswers : Heartbeat(HeartbeatPayload, status)
  /\ calls' = calls + 1
  /\ UNCHANGED <<now, serial, hardware, central_server, model_config, config_file, h, agent_stats,
                 node_state, jobs_history, communication_logs, updater,
                 disabled_workflows, models_info, response_body, alive>>

(* api_capabilities, 2223-2290, the part the orchestrator routes on: the   *)
(* LLM models, and the workflows supported and ready.                      *)
Body(ep, status, models, supported, ready, workflow) ==
  [ep |-> ep, status |-> status, models |-> models, supported |-> supported,
   ready |-> ready, workflow |-> workflow]

api_capabilities(r) ==
  /\ CanAccept(r)
  /\ response_body' = <<Body("api_capabilities", 200, node_state["ollama"].models,
                             WorkflowIds, ReadyWorkflows(models_info), None)>>
  /\ h' = [h EXCEPT ![r] = Answer(r, "api_capabilities", 200, None)]
  /\ calls' = calls + 1
  /\ UNCHANGED <<now, serial, hardware, heartbeat_answer, conf, agent_stats, node_state, jobs_history, communication_logs,
                 updater, disabled_workflows, models_info, heartbeat_body, alive>>

(* api_workflow_detail, 2029-2034. *)
RequestedWorkflows == {"wan2.2_14B_t2v", "holocine", "no_such_workflow"}

api_workflow_detail(r) ==
  /\ CanAccept(r)
  /\ \E workflow_id \in RequestedWorkflows :
       IF workflow_id \notin DOMAIN WORKFLOW_REGISTRY
       THEN /\ response_body' = <<Body("api_workflow_detail", 404, <<>>, <<>>, <<>>, None)>>
            /\ h' = [h EXCEPT ![r] = Reply(r, "api_workflow_detail",
                                           [method |-> "GET", workflow_id |-> workflow_id],
                                           404, "not found")]
       ELSE /\ response_body' = <<Body("api_workflow_detail", 200, <<>>, <<>>, <<>>,
                                       workflow_id)>>
            /\ h' = [h EXCEPT ![r] = Reply(r, "api_workflow_detail",
                                           [method |-> "GET", workflow_id |-> workflow_id],
                                           200, None)]
  /\ calls' = calls + 1
  /\ UNCHANGED <<now, serial, hardware, heartbeat_answer, conf, agent_stats, node_state, jobs_history, communication_logs,
                 updater, disabled_workflows, models_info, heartbeat_body, alive>>

(* api_workflow_download, 2037-2052: the same test, then the workflow's    *)
(* JSON as an attachment.                                                  *)
api_workflow_download(r) ==
  /\ CanAccept(r)
  /\ \E workflow_id \in RequestedWorkflows :
       LET status == IF workflow_id \notin DOMAIN WORKFLOW_REGISTRY THEN 404 ELSE 200 IN
       /\ response_body' = <<Body("api_workflow_download", status, <<>>, <<>>, <<>>,
                                  IF status = 200 THEN workflow_id ELSE None)>>
       /\ h' = [h EXCEPT ![r] = Reply(r, "api_workflow_download",
                                      [method |-> "GET", workflow_id |-> workflow_id],
                                      status, IF status = 200 THEN None ELSE "not found")]
  /\ calls' = calls + 1
  /\ UNCHANGED <<now, serial, hardware, heartbeat_answer, conf, agent_stats, node_state, jobs_history, communication_logs,
                 updater, disabled_workflows, models_info, heartbeat_body, alive>>

(* api_workflow_availability, 2055-2059: whatever                          *)
(* check_workflow_model_availability returns goes out as JSON with the     *)
(* default status, the dict {"available": False, "error": ...} of an       *)
(* unknown workflow included.                                              *)
api_workflow_availability(r) ==
  /\ CanAccept(r)
  /\ \E workflow_id \in RequestedWorkflows :
       LET availability == check_workflow_model_availability(workflow_id, models_info) IN
       /\ response_body' = <<Body("api_workflow_availability", 200, <<>>, <<>>,
                                  IF AllAvailable(availability) THEN <<workflow_id>> ELSE <<>>,
                                  workflow_id)>>
       /\ h' = [h EXCEPT ![r] = Reply(r, "api_workflow_availability",
                                      [method |-> "GET", workflow_id |-> workflow_id],
                                      200, IF "error" \in DOMAIN availability
                                           THEN availability.error ELSE None)]
  /\ calls' = calls + 1
  /\ UNCHANGED <<now, serial, hardware, heartbeat_answer, conf, agent_stats, node_state, jobs_history, communication_logs,
                 updater, disabled_workflows, models_info, heartbeat_body, alive>>

(* ------------------------------ the process ------------------------- *)
(* The process is killed while save_config, called for a config request,   *)
(* has the file open: open(CONFIG_FILE, 'w') at line 90 has emptied it and *)
(* json.dump has written none or a part of the new content.                *)
KilledInSaveConfig(r) ==
  /\ CanAccept(r)
  /\ config_file' = Torn
  /\ alive' = FALSE
  /\ calls' = calls + 1
  /\ UNCHANGED <<now, serial, hardware, heartbeat_answer, h, agent_stats, node_state, jobs_history, communication_logs,
                 central_server, last_heartbeat, model_config, disabled_workflows,
                 models_info, heartbeat_body, response_body, updater>>

(* The process is started again, by hand after it died or by os.execl,     *)
(* 309-316: the module's globals have their initial values, the files are  *)
(* what they were.  A file that is not a whole agent.py does not run.      *)
Runnable == {"v1", "v2"}

Start ==
  /\ ~alive
  /\ restarts < MaxRestarts
  /\ disk.exe # 0 /\ inodes[disk.exe].data \in Runnable
  /\ alive' = TRUE
  /\ restarts' = restarts + 1
  /\ h' = [r \in Handlers |-> IdleHandler]
  /\ agent_stats' = [s \in Services |-> InitStats(s)]
  /\ node_state' = [s \in Services |->
                      [available |-> FALSE, models |-> <<>>,
                       current_job |-> NoJob, jobs_completed |-> 0]]
  /\ models_info' = NoCatalog
  /\ jobs_history' = <<>>
  /\ communication_logs' = [s \in Services |-> <<>>]
  /\ last_heartbeat' = <<>>
  /\ model_config' = <<>>
  /\ disabled_workflows' = <<>>
  /\ heartbeat_body' = <<>>
  /\ heartbeat_answer' = 0
  /\ response_body' = <<>>
  /\ u' = Threads0("startup")
  /\ heartbeat_counter' = 0
  /\ cycle' = 0
  /\ UNCHANGED <<now, serial, hardware, calls, central_server, config_file, no_update, reachable,
                 disk, inodes>>

(* main, 2741-2750: the startup update check, unless there is no           *)
(* orchestrator or --no-update was given.                                  *)
main ==
  /\ alive
  /\ u[0].pc = "startup"
  /\ u' = [u EXCEPT ![0] = IF central_server # None /\ ~no_update
                           THEN [@ EXCEPT !.pc = "check", !.path = "startup"]
                           ELSE [@ EXCEPT !.pc = "init", !.path = "startup"]]
  /\ UNCHANGED <<now, serial, hardware, heartbeat_answer, calls, h, agent_stats, node_state, jobs_history,
                 communication_logs, conf, advert, no_update, reachable, restarts, disk,
                 inodes, heartbeat_counter, cycle>>

(* main, 2752-2826: load_config, the first probe, then the background      *)
(* thread and the HTTP server are started.                                 *)
main_init ==
  /\ alive
  /\ u[0].pc = "init"
  /\ model_config' = load_config(config_file).ollama_disabled_models
  /\ disabled_workflows' = load_config(config_file).comfyui_disabled_workflows
  /\ communication_logs' = Probe(reachable).logs
  /\ node_state' = Probe(reachable).node
  /\ models_info' = Probe(reachable).info
  /\ u' = [u EXCEPT ![0] = [IdleUpdate EXCEPT !.pc = "loop"]]
  /\ UNCHANGED <<now, serial, hardware, heartbeat_answer, calls, h, agent_stats, jobs_history, central_server,
                 last_heartbeat, config_file, heartbeat_body, response_body, alive,
                 no_update, reachable, restarts, disk, inodes, heartbeat_counter, cycle>>

(* ------------------------------ the updater ------------------------- *)
(* The steps of check_for_updates, download_update and apply_update, for   *)
(* thread t: 0 is the main thread and then the background thread, the      *)
(* others are handler threads serving /api/update/apply.                   *)
outside ==
  <<now, serial, hardware, heartbeat_answer, agent_stats, node_state, jobs_history, communication_logs, conf, advert,
    no_update, reachable, restarts, heartbeat_counter, cycle>>

Referenced(d, uu) == {d.exe, d.new, d.backup} \cup {uu[t].fd : t \in Threads}

FreeInode == CHOOSE i \in Inodes : i \notin Referenced(disk, u) /\
                                   \A j \in Inodes : j < i => j \in Referenced(disk, u)

(* A file no entry names and no thread has open is gone. *)
Sweep(d, ino, uu) == [i \in Inodes |-> IF i \in Referenced(d, uu) THEN ino[i] ELSE NoFile]

(* get_file_hash, 171-181: None when the file cannot be read. *)
get_file_hash(path) == IF disk[path] = 0 THEN None ELSE md5(inodes[disk[path]].data)

(* The update code returns to its caller without an update: main goes on   *)
(* to start the agent (2752), the background loop sleeps (1054), the       *)
(* handler answers.                                                        *)
(* A mutant: the background thread ends with a periodic check that        *)
(* returns without an update.                                              *)
Back_ends_loop(t, status, error) ==
  /\ u' = [u EXCEPT ![t] =
             IF @.path = "startup" THEN [IdleUpdate EXCEPT !.pc = "init", !.path = "startup"]
             ELSE IdleUpdate]
  /\ h' = IF u[t].path = "api"
          THEN [h EXCEPT ![t] = Done(@, IF status = 200 THEN "ok" ELSE "error", status, error)]
          ELSE h

Back(t, status, error) ==
  /\ u' = [u EXCEPT ![t] =
             IF @.path = "startup" THEN [IdleUpdate EXCEPT !.pc = "init", !.path = "startup"]
             ELSE IF @.path = "periodic" THEN [IdleUpdate EXCEPT !.pc = "loop"]
             ELSE IdleUpdate]
  /\ h' = IF u[t].path = "api"
          THEN [h EXCEPT ![t] = Done(@, IF status = 200 THEN "ok" ELSE "error", status, error)]
          ELSE h

(* api_update_apply, 1850-1856.  The request arrives after the pass of     *)
(* the loop that made the first periodic check.                            *)
ApplyTimes == {UPDATE_CHECK_INTERVAL}

api_update_apply(r) ==
  /\ CanAccept(r)
  /\ cycle \in ApplyTimes
  /\ u[r].pc = "idle"
  /\ IF central_server = None
     THEN /\ h' = [h EXCEPT ![r] = Answer(r, "api_update_apply", 400,
                                          "No central server configured")]
          /\ u' = u
     ELSE /\ h' = [h EXCEPT ![r] = [Accept(r, "api_update_apply", "none", [method |-> "POST"])
                                      EXCEPT !.pc = "updating"]]
          /\ u' = [u EXCEPT ![r] = [IdleUpdate EXCEPT !.pc = "check", !.path = "api"]]
  /\ calls' = calls + 1
  /\ UNCHANGED <<outside, disk, inodes>>

(* check_for_updates, 184-202, and what each caller makes of the answer:   *)
(* perform_auto_update (276-285) gives up on 'error' and on a false        *)
(* needsUpdate, the loop (1040) and the handler (1859) on a false          *)
(* needsUpdate.  A check that fails answers needsUpdate False with an      *)
(* error.                                                                  *)
CheckAnswers == [needsUpdate : BOOLEAN, error : BOOLEAN]

(* A mutant: the caller goes on to download whatever the check answered. *)
Proceeds_always(path, a) == TRUE

(* 276-285, 1040, 1859 *)
Proceeds(path, a) == a.needsUpdate /\ (path = "startup" => ~a.error)

check_for_updates(t) ==
  /\ alive
  /\ u[t].pc = "check"
  /\ \E a \in CheckAnswers :
       IF Proceeds(u[t].path, a)
       THEN /\ u' = [u EXCEPT ![t].pc = "download", ![t].needsUpdate = a.needsUpdate,
                              ![t].error = a.error]
            /\ h' = h
       ELSE Back(t, 200, None)
  /\ UNCHANGED <<outside, calls, disk, inodes>>

(* download_update, 205-236.  The GET, 208-216, and open(temp_path, "wb"), *)
(* 220: the file is created, or emptied when it is there.                  *)
DownloadResponses ==
  [ok : {TRUE}, hdr : {None, "", md5("v2")}, body : {"v2", "junk"}]
    \cup {[ok |-> FALSE, hdr |-> None, body |-> "none"]}

DownloadOpen(t) ==
  /\ alive
  /\ u[t].pc = "download"
  /\ \E resp \in DownloadResponses :
       IF ~resp.ok
       THEN Back(t, 500, "Failed to download update") /\ UNCHANGED <<disk, inodes>>
       ELSE LET i == IF disk.new # 0 THEN disk.new ELSE FreeInode
            IN /\ disk' = [disk EXCEPT !.new = i]
               /\ inodes' = [inodes EXCEPT ![i] = [data |-> ""]]
               /\ u' = [u EXCEPT ![t].pc = "write", ![t].fd = i, ![t].hdr = resp.hdr,
                                 ![t].body = resp.body]
               /\ h' = h
  /\ UNCHANGED <<outside, calls>>

(* 221-222: the body is written and the file closed, or the transfer       *)
(* breaks and leaves a part of it.                                         *)
DownloadWrite(t) ==
  /\ alive
  /\ u[t].pc = "write"
  /\ \E whole \in BOOLEAN :
       /\ IF whole
          THEN u' = [u EXCEPT ![t].pc = "verify", ![t].fd = 0] /\ h' = h
          ELSE Back(t, 500, "Failed to download update")
       /\ inodes' = Sweep(disk, [inodes EXCEPT ![u[t].fd].data =
                                   IF whole THEN u[t].body ELSE "part"], u')
  /\ UNCHANGED <<outside, calls, disk>>

(* 224-232: the file's MD5 against the X-Agent-Hash header, when the       *)
(* header's value is true in Python's sense; os.remove on a mismatch.      *)
(* A mutant: no header's value counts.                                     *)
Truthy_never(x) == FALSE

Truthy(x) == x # None /\ x # ""

DownloadVerify(t) ==
  /\ alive
  /\ u[t].pc = "verify"
  /\ LET new_hash == get_file_hash("new")
         server_hash == u[t].hdr
     IN IF Truthy(server_hash) /\ new_hash # server_hash
        THEN /\ Back(t, 500, "Failed to download update")
             /\ disk' = [disk EXCEPT !.new = 0]
             /\ inodes' = Sweep(disk', inodes, u')
        ELSE /\ u' = [u EXCEPT ![t].pc = "copy", ![t].verified = TRUE]
             /\ h' = h
             /\ UNCHANGED <<disk, inodes>>
  /\ UNCHANGED <<outside, calls>>

(* apply_update, 239-246: shutil.copy2 of agent.py onto agent.py.backup:   *)
(* done, or refused before the backup was touched, or broken off with a    *)
(* part of it written.                                                     *)
ApplyCopy(t) ==
  /\ alive
  /\ u[t].pc = "copy"
  /\ \E result \in {"copied", "refused", "broke"} :
       LET j == IF disk.backup # 0 THEN disk.backup ELSE FreeInode
           current == inodes[disk.exe]
       IN /\ u' = [u EXCEPT ![t].pc = IF result = "copied" THEN "move" ELSE "restore",
                            ![t].before = current.data]
          /\ IF result = "refused"
             THEN UNCHANGED <<disk, inodes>>
             ELSE /\ disk' = [disk EXCEPT !.backup = j]
                  /\ inodes' = [inodes EXCEPT ![j] =
                                  IF result = "copied" THEN current
                                  ELSE [current EXCEPT !.data = "part"]]
  /\ UNCHANGED <<outside, calls, h>>

(* 248-252: shutil.move of agent.py.new over agent.py; then True, and the  *)
(* caller restarts (2746, 1047) or answers and starts the thread that      *)
(* will (1869-1880).                                                       *)
ApplyMove(t) ==
  /\ alive
  /\ u[t].pc = "move"
  /\ \E moved \in BOOLEAN :
       IF disk.new = 0 \/ ~moved
       THEN /\ disk.new = 0 => moved
            /\ u' = [u EXCEPT ![t].pc = "restore"]
            /\ UNCHANGED <<h, disk, inodes>>
       ELSE /\ disk' = [disk EXCEPT !.exe = disk.new, !.new = 0]
            /\ inodes' = Sweep(disk', inodes, u)
            /\ u' = [u EXCEPT ![t].pc = "restart", ![t].applied = TRUE]
            /\ h' = IF u[t].path = "api"
                    THEN [h EXCEPT ![t] = Done(@, "ok", 200, None)]
                    ELSE h
  /\ UNCHANGED <<outside, calls>>

(* 253-265: the except clause moves agent.py.backup, when there is one,    *)
(* over agent.py, whatever it holds; then False.                           *)
ApplyRestore(t) ==
  /\ alive
  /\ u[t].pc = "restore"
  /\ \E moved \in BOOLEAN :
       /\ disk.backup = 0 => moved
       /\ Back(t, 500, "Failed to apply update")
       /\ IF disk.backup # 0 /\ moved
          THEN /\ disk' = [disk EXCEPT !.exe = disk.backup, !.backup = 0]
               /\ inodes' = Sweep(disk', inodes, u')
          ELSE UNCHANGED <<disk, inodes>>
  /\ UNCHANGED <<outside, calls>>

(* restart_agent, 309-316: os.execl ends this process. *)
restart_agent(t) ==
  /\ alive
  /\ u[t].pc = "restart"
  /\ alive' = FALSE
  /\ UNCHANGED <<now, serial, hardware, heartbeat_answer, calls, h, u, agent_stats, node_state, jobs_history,
                 communication_logs, conf, disabled_workflows, models_info, heartbeat_body,
                 response_body, no_update, reachable, restarts, disk, inodes,
                 heartbeat_counter, cycle>>

(* A mutant: --no-update also turns the periodic check off. *)
UpdateDue_unless_no_update(counter) ==
  counter >= UPDATE_CHECK_INTERVAL /\ central_server # None /\ ~no_update

(* A mutant: the check is due one pass later. *)
UpdateDue_late(counter) == counter > UPDATE_CHECK_INTERVAL /\ central_server # None

(* 1034 *)
UpdateDue(counter) == counter >= UPDATE_CHECK_INTERVAL /\ central_server # None

(* background_tasks, 1020-1054, one pass of the loop up to the periodic    *)
(* check: update_system_stats, update_services, send_heartbeat, the        *)
(* counter.  The services answer the probe as they did at startup.         *)
background_tasks ==
  /\ alive
  /\ u[0].pc = "loop"
  /\ cycle < MaxCycles
  /\ serial => \A r \in Handlers : ~Active(h[r]) /\ u[r].pc = "idle"
  /\ communication_logs' = Probe(reachable).logs
  /\ node_state' = Probe(reachable).node
  /\ models_info' = Probe(reachable).info
  /\ \E status \in HeartbeatAnswers : Heartbeat(HeartbeatPayload', status)
  /\ cycle' = cycle + 1
  /\ IF UpdateDue(heartbeat_counter + 1)
     THEN /\ heartbeat_counter' = 0
          /\ u' = [u EXCEPT ![0] = [IdleUpdate EXCEPT !.pc = "check", !.path = "periodic"]]
     ELSE /\ heartbeat_counter' = heartbeat_counter + 1
          /\ u' = u
  /\ UNCHANGED <<now, serial, hardware, calls, h, agent_stats, jobs_history, central_server,
                 model_config, config_file, disabled_workflows, response_body, alive,
                 no_update, reachable, restarts, disk, inodes>>

(* ------------------------------- clock -------------------------------- *)
(* Time passes, a little more than a window's length at a time.  The runs  *)
(* with concurrent handlers happen within one clock reading.               *)
Tick ==
  /\ serial
  /\ now < MaxTicks * RPM_WINDOW_SECS
  /\ now' = now + RPM_WINDOW_SECS + 1
  /\ UNCHANGED <<serial, ext, conf, calls, h, agent_stats, node_state, jobs_history, communication_logs>>

(* ------------------------------ behaviours ---------------------------- *)
proxy_ollama(r) ==
  \/ ProxyOllamaBegin(r)
  \/ OllamaUpstream(r)
  \/ OllamaStream(r)
  \/ OllamaStreamEnd(r)

proxy_comfyui(r) ==
  \/ ProxyComfyBegin(r)
  \/ ComfyUpstream(r)
  \/ ComfyPromptId(r)
  \/ ComfySetPromptId(r)

Handler(r) ==
  \/ proxy_ollama(r)
  \/ proxy_comfyui(r)
  \/ update_stats(r)
  \/ ProxyExcept(r)
  \/ ProxyCheck(r)
  \/ ClearJob(r)
  \/ CountRead(r)
  \/ CountWrite(r)
  \/ JobCompleteBegin(r)
  \/ ComfyJobCompleteBegin(r)
  \/ JobHistory(r)
  \/ ComfyJobLog(r)
  \/ StatsResetBegin(r)
  \/ StatsResetSecond(r)
  \/ api_job_start(r)

Next == \E r \in Handlers : Handler(r)

Spec == Init /\ [][Next]_vars

NextSeq ==
  \/ Next
  \/ \E r \in Handlers : api_stats(r)
  \/ \E r \in Handlers : api_load_balance_info(r)
  \/ \E r \in Handlers : api_logs_clear(r)
  \/ \E r \in Handlers : api_models_toggle(r)
  \/ \E r \in Handlers : api_update_check(r)
  \/ update_services
  \/ send_heartbeat
  \/ Tick

SpecSeq == InitSeq /\ [][NextSeq]_vars

(* The config and what is advertised: the agent runs with an             *)
(* orchestrator and --no-update, its first probe has observed some list    *)
(* of LLM models and some catalog, and the config file is one of those     *)
(* below; requests are served one at a time.                               *)
ObservedLists ==
  << <<>>, <<"a:1">>, <<"a:1", "b:2", "c:3">>, <<"c:3", "b:2", "a:1">>, <<"b:2", "a:1", "b:2">>,
     <<"b:2">>, <<"c:3", "c:3">> >>

Observations ==
  { [models |-> ObservedLists[k], catalog |-> Catalogs[k]] : k \in 1..Len(ObservedLists) }

DiskConfigs ==
  { Absent,
    File(<<>>, <<>>),
    File(<<"b:2">>, <<>>),
    File(<<"a:1", "a:1">>, <<>>),
    File(<<"b:2", "a:1">>, <<"holocine">>),
    File(<<"zz:9">>, <<"wan2.2_14B_t2v", "holocine">>) }

InitCfg ==
  /\ serial = TRUE
  /\ central_server = "http://server"
  /\ InitMemory
  /\ \E o \in Observations : InitNode([s \in Services |-> TRUE], o.models, o.catalog)
  /\ \E file \in DiskConfigs : InitConfig(file)
  /\ InitAdvert
  /\ hardware = NoGpu
  /\ no_update = TRUE
  /\ reachable = [s \in Services |-> TRUE]
  /\ restarts = 0
  /\ InitFiles
  /\ u = Threads0("loop")
  /\ heartbeat_counter = 0
  /\ cycle = 0

NextCfg ==
  \/ \E r \in Handlers : api_models_toggle(r)
  \/ \E r \in Handlers : api_models_set_enabled(r)
  \/ \E r \in Handlers : api_capabilities(r)
  \/ \E r \in Handlers : api_workflow_detail(r)
  \/ \E r \in Handlers : KilledInSaveConfig(r)
  \/ send_heartbeat
  \/ Start
  \/ main
  \/ main_init

SpecCfg == InitCfg /\ [][NextCfg]_vars

(* The updater: the agent is started with or without a central server,    *)
(* with or without --no-update; requests are served one at a time, after   *)
(* the loop's first periodic check.                                        *)
InitUpd ==
  /\ serial = TRUE
  /\ central_server \in CentralServers
  /\ InitState
  /\ InitAdvert
  /\ hardware = NoGpu
  /\ no_update \in BOOLEAN
  /\ reachable = [s \in Services |-> FALSE]
  /\ restarts = 0
  /\ InitFiles
  /\ u = Threads0("startup")
  /\ heartbeat_counter = 0
  /\ cycle = 0

Update(t) ==
  \/ check_for_updates(t)
  \/ DownloadOpen(t)
  \/ DownloadWrite(t)
  \/ DownloadVerify(t)
  \/ ApplyCopy(t)
  \/ ApplyMove(t)
  \/ ApplyRestore(t)
  \/ restart_agent(t)

NextUpd ==
  \/ main
  \/ main_init
  \/ cycle < MaxUpdCycles /\ background_tasks
  \/ \E r \in Handlers : api_update_apply(r)
  \/ \E t \in Threads : Update(t)
  \/ Start

SpecUpd == InitUpd /\ [][NextUpd]_vars

(* The background loop on its own, over MaxCycles passes: an agent started *)
(* with --no-update against a central server or without one; no request    *)
(* arrives.                                                                *)
InitLoop ==
  /\ serial = TRUE
  /\ central_server \in CentralServers
  /\ InitState
  /\ InitAdvert
  /\ hardware = NoGpu
  /\ no_update = TRUE
  /\ reachable = [s \in Services |-> FALSE]
  /\ restarts = 0
  /\ InitFiles
  /\ u = Threads0("startup")
  /\ heartbeat_counter = 0
  /\ cycle = 0

NextLoop ==
  \/ main
  \/ main_init
  \/ background_tasks
  \/ Update(0)
  \/ Start

SpecLoop == InitLoop /\ [][NextLoop]_vars

(* The same, with the process and its background thread kept running: the  *)
(* thread is scheduled again after every sleep (1054) and every call it    *)
(* makes returns or raises within its timeout.                             *)
SpecLoopFair == SpecLoop /\ WF_vars(NextLoop)

(* Long-running agents: the response-time windows and the job history     *)
(* are full, or one entry short of it, when the run begins; requests are   *)
(* served one at a time.  The agent has recorded n successful calls per    *)
(* service, the k-th taking k ms and the last a minute ago, and completed  *)
(* n LLM jobs, the latest first in the history.                            *)
Recorded(s, n) ==
  [InitStats(s) EXCEPT
     !.total_requests = n, !.successful_requests = n,
     !.total_response_time_ms = (n * (n + 1)) \div 2,
     !.recent_response_times = [k \in 1..n |-> k],
     !.avg_response_time_ms = Rat((n * (n + 1)) \div 2, n),
     !.min_response_time_ms = <<1>>, !.max_response_time_ms = <<n>>,
     !.requests_last_minute = <<0 - RPM_WINDOW_SECS>>, !.requests_per_minute = 1]

CompletedJob(k) ==
  [NewJob("generation", 0 - k) EXCEPT !.started_at = 0 - k * RPM_WINDOW_SECS,
                                      !.completed_at = <<0 - k * RPM_WINDOW_SECS>>,
                                      !.status = "completed"]

Slacks == {0, 1}

InitFull ==
  /\ serial = TRUE
  /\ central_server = None
  /\ now = 0
  /\ calls = 0
  /\ h = [r \in Handlers |-> IdleHandler]
  /\ communication_logs = [s \in Services |-> <<>>]
  /\ last_heartbeat = <<>>
  /\ models_info = NoCatalog
  /\ InitConfig(Absent)
  /\ InitAdvert
  /\ InitUpdater
  /\ \E slack \in Slacks :
       /\ node_state = [s \in Services |->
                          [available |-> FALSE, models |-> <<>>, current_job |-> NoJob,
                           jobs_completed |-> IF s = "ollama"
                                              THEN JOBS_HISTORY_SIZE - slack ELSE 0]]
       /\ agent_stats = [s \in Services |-> Recorded(s, STATS_HISTORY_SIZE - slack)]
       /\ jobs_history = [k \in 1..(JOBS_HISTORY_SIZE - slack) |-> CompletedJob(k)]

SpecFull == InitFull /\ [][Next]_vars

(* The log rings under concurrent handlers.  add_log_entry, 502-505, is    *)
(* three steps on the shared dict: insert(0, entry) on the list the ring   *)
(* is, the slice [:MAX_LOG_ENTRIES] of the list the ring is then (a new    *)
(* list), and the assignment of that list to the ring.  POST /api/logs/add *)
(* (2107-2118) calls it with the request's service, and POST               *)
(* /api/logs/<service>/clear assigns a new empty list.  The rings are      *)
(* full, or one entry short of it, when the run begins.                    *)
LogEndpoints == {"/api/generate", "/prompt"}

LogEntry(endpoint) ==
  [direction |-> "send", endpoint |-> endpoint, data_summary |-> None, error |-> None]

LogsAddBegin(r) ==
  /\ CanAccept(r)
  /\ \E service \in LogServices, endpoint \in LogEndpoints :
       LET hr == Accept(r, "api_logs_add", service, [method |-> "POST"]) IN
       IF service \in DOMAIN communication_logs
       THEN /\ communication_logs' =
                 [communication_logs EXCEPT ![service] = <<LogEntry(endpoint)>> \o @]
            /\ h' = [h EXCEPT ![r] = [hr EXCEPT !.pc = "log_slice"]]
       ELSE /\ h' = [h EXCEPT ![r] = Done(hr, "ok", 200, None)]
            /\ UNCHANGED communication_logs
  /\ calls' = calls + 1
  /\ UNCHANGED <<now, serial, ext, conf, agent_stats, node_state, jobs_history>>

LogsAddSlice(r) ==
  /\ h[r].pc = "log_slice"
  /\ h' = [h EXCEPT ![r].cut = Prefix(communication_logs[h[r].svc], MAX_LOG_ENTRIES),
                    ![r].pc = "log_store"]
  /\ UNCHANGED <<now, serial, ext, conf, calls, agent_stats, node_state, jobs_history,
                 communication_logs>>

LogsAddStore(r) ==
  /\ h[r].pc = "log_store"
  /\ communication_logs' = [communication_logs EXCEPT ![h[r].svc] = h[r].cut]
  /\ h' = [h EXCEPT ![r] = Done([@ EXCEPT !.cut = <<>>], "ok", 200, None)]
  /\ UNCHANGED <<now, serial, ext, conf, calls, agent_stats, node_state, jobs_history>>

api_logs_add(r) ==
  \/ LogsAddBegin(r)
  \/ LogsAddSlice(r)
  \/ LogsAddStore(r)

OldEntries(n) ==
  [k \in 1..n |-> [LogEntry(ToString(k)) EXCEPT !.direction = "receive"]]

InitLog ==
  /\ serial = FALSE
  /\ central_server = None
  /\ now = 0
  /\ calls = 0
  /\ h = [r \in Handlers |-> IdleHandler]
  /\ agent_stats = [s \in Services |-> InitStats(s)]
  /\ jobs_history = <<>>
  /\ last_heartbeat = <<>>
  /\ InitNode([s \in Services |-> FALSE], <<>>, NoCatalog)
  /\ InitConfig(Absent)
  /\ InitAdvert
  /\ InitUpdater
  /\ \E slack \in Slacks :
       communication_logs = [s \in Services |-> OldEntries(MAX_LOG_ENTRIES - slack)]

NextLog ==
  \/ \E r \in Handlers : api_logs_add(r)
  \/ \E r \in Handlers : api_logs_clear(r)

SpecLog == InitLog /\ [][NextLog]_vars

(* POST /api/can-handle, 2313-2426.  The request's keys are "absent" or a  *)
(* string; the answer is the result dict, estimated_wait_ms being <<>>     *)
(* for None and <<q>> for a number q.                                      *)
Get(data, key, default) == IF data[key] = "absent" THEN default ELSE data[key]

Above(q, n) == q[1] > n * q[2]
Below(q, n) == q[1] < n * q[2]

NoResult == [can_handle |-> FALSE, reason |-> None, score |-> 0, estimated_wait_ms |-> <<>>]

Refused(reason) == [NoResult EXCEPT !.reason = reason]

(* 2351-2357, 2407-2412 *)
Queued(reason, stats) ==
  [can_handle |-> TRUE, reason |-> reason, score |-> 30,
   estimated_wait_ms |-> <<stats.avg_response_time_ms>>]

(* A mutant: a job in progress costs nothing. *)
Score_busy_for_free(loaded, unreliable, is_busy) ==
  100 - (IF loaded THEN 20 ELSE 0) - (IF unreliable THEN 30 ELSE 0)

(* 2360-2369, 2415-2424: base_score and max(0, base_score). *)
Score(loaded, unreliable, is_busy) ==
  LET base_score == 100 - (IF loaded THEN 20 ELSE 0) - (IF unreliable THEN 30 ELSE 0)
                        - (IF is_busy THEN 40 ELSE 0)
  IN IF base_score > 0 THEN base_score ELSE 0

Scored(loaded, stats, is_busy) ==
  [can_handle |-> TRUE, reason |-> None,
   score |-> Score(loaded, Below(stats.success_rate, 95), is_busy),
   estimated_wait_ms |-> IF is_busy THEN <<stats.avg_response_time_ms>> ELSE << <<0, 1>> >>]

can_handle_ollama(model, priority) ==
  LET is_busy == node_state["ollama"].current_job # NoJob
      stats == agent_stats["ollama"]
  IN IF ~node_state["ollama"].available THEN Refused("Ollama not available")
     ELSE IF Truthy(model) /\ ~InList(model, node_state["ollama"].models)
          THEN Refused("Model not available")
     ELSE IF is_busy /\ priority # "high"
          THEN Queued("Currently processing another job", stats)
     ELSE Scored(Above(stats.avg_response_time_ms, 10000), stats, is_busy)

can_handle_comfyui(workflow_id, priority) ==
  LET is_busy == node_state["comfyui"].current_job # NoJob
      stats == agent_stats["comfyui"]
      gpu_info == hardware
      gpu_memory_percent == gpu_info[1].memory_usage_percent
  IN IF ~node_state["comfyui"].available THEN Refused("ComfyUI not available")
     ELSE IF Truthy(workflow_id) /\ workflow_id \notin DOMAIN WORKFLOW_REGISTRY
          THEN Refused("Workflow not supported")
     ELSE IF Truthy(workflow_id)
             /\ ~AllAvailable(check_workflow_model_availability(workflow_id, models_info))
          THEN Refused("Missing models")
     ELSE IF gpu_info = <<>> THEN Refused("No GPU available")
     ELSE IF gpu_memory_percent > 95 THEN Refused("GPU memory full")
     ELSE IF is_busy /\ priority # "high" THEN Queued("Currently rendering", stats)
     ELSE Scored(gpu_memory_percent > 80, stats, is_busy)

can_handle(data) ==
  LET job_type == Get(data, "job_type", "ollama")
      model == Get(data, "model", None)
      workflow_id == Get(data, "workflow_id", None)
      priority == Get(data, "priority", "normal")
  IN IF job_type = "ollama" THEN can_handle_ollama(model, priority)
     ELSE IF job_type = "comfyui" THEN can_handle_comfyui(workflow_id, priority)
     ELSE NoResult

CanHandleRequests ==
  [method : {"POST"}, job_type : {"ollama", "absent"}, model : {"absent", "a:1", "b:2"},
   workflow_id : {"absent"}, priority : {"absent", "normal", "high", "low"}]
  \cup [method : {"POST"}, job_type : {"comfyui"}, model : {"absent"},
        workflow_id : {"absent", "wan2.2_14B_t2v", "holocine", "no_such_workflow"},
        priority : {"absent", "normal", "high"}]
  \cup [method : {"POST"}, job_type : {"render"}, model : {"absent"},
        workflow_id : {"wan2.2_14B_t2v"}, priority : {"absent"}]

api_can_handle(r) ==
  /\ CanAccept(r)
  /\ \E data \in CanHandleRequests :
       /\ response_body' = <<[ep |-> "api_can_handle", status |-> 200,
                               result |-> can_handle(data)]>>
       /\ h' = [h EXCEPT ![r] = Done(Accept(r, "api_can_handle", "none", data),
                                     "ok", 200, None)]
  /\ calls' = calls + 1
  /\ UNCHANGED <<now, serial, hardware, heartbeat_answer, conf, agent_stats, node_state,
                 jobs_history, communication_logs, updater, disabled_workflows, models_info,
                 heartbeat_body, alive>>

(* The states /api/can-handle is asked in: each service answered the last  *)
(* probe or not (an LLM service that did lists a:1, a RENDER service that  *)
(* did has the files of one workflow), has a job in progress or not, and   *)
(* has recorded 20 calls of 10 or 12 seconds each of which 0, 1 or 2       *)
(* failed; the first GPU's memory is used to 80, 81, 94, 95 or 96 percent, *)
(* or there is no GPU.                                                     *)
Histories == [calls : {20}, failed : {0, 1, 2}, ms : {10000, 12000}]

History(s, past) ==
  [InitStats(s) EXCEPT
     !.total_requests = past.calls,
     !.successful_requests = past.calls - past.failed,
     !.failed_requests = past.failed,
     !.total_response_time_ms = past.calls * past.ms,
     !.recent_response_times = [k \in 1..past.calls |-> past.ms],
     !.avg_response_time_ms = Rat(past.calls * past.ms, past.calls),
     !.min_response_time_ms = <<past.ms>>, !.max_response_time_ms = <<past.ms>>,
     !.success_rate = Rat((past.calls - past.failed) * 100, past.calls),
     !.requests_last_minute = <<0 - RPM_WINDOW_SECS>>, !.requests_per_minute = 1,
     !.last_error = IF past.failed > 0 THEN "HTTP 500" ELSE None,
     !.last_error_time = IF past.failed > 0 THEN <<0 - RPM_WINDOW_SECS>> ELSE <<>>]

GpuStates == {NoGpu, Gpu(80), Gpu(81), Gpu(94), Gpu(95), Gpu(96)}

InitCan ==
  /\ serial = TRUE
  /\ central_server = None
  /\ now = 0
  /\ calls = 0
  /\ h = [r \in Handlers |-> IdleHandler]
  /\ jobs_history = <<>>
  /\ communication_logs = [s \in Services |-> <<>>]
  /\ last_heartbeat = <<>>
  /\ InitConfig(Absent)
  /\ InitAdvert
  /\ no_update = FALSE
  /\ restarts = 0
  /\ InitFiles
  /\ u = Threads0("loop")
  /\ heartbeat_counter = 0
  /\ cycle = 0
  /\ hardware \in GpuStates
  /\ reachable \in [Services -> BOOLEAN]
  /\ models_info = IF reachable["comfyui"] THEN WanCatalog ELSE NoCatalog
  /\ \E busy \in [Services -> BOOLEAN] :
       node_state = [s \in Services |->
                       [available |-> reachable[s],
                        models |-> IF s = "ollama" /\ reachable[s] THEN ObservedModels ELSE <<>>,
                        current_job |-> IF busy[s] THEN NewJob("generation", 0) ELSE NoJob,
                        jobs_completed |-> 0]]
  /\ \E past \in Histories : agent_stats = [s \in Services |-> History(s, past)]

NextCan == \E r \in Handlers : api_can_handle(r)

SpecCan == InitCan /\ [][NextCan]_vars

(* The endpoints that take a workflow id or a service name, asked one at a *)
(* time for names the agent knows and for names it does not, on an agent   *)
(* whose services answered the last probe and whose log rings hold an      *)
(* entry each.                                                             *)
InitErr ==
  /\ serial = TRUE
  /\ central_server = None
  /\ now = 0
  /\ calls = 0
  /\ h = [r \in Handlers |-> IdleHandler]
  /\ agent_stats = [s \in Services |-> InitStats(s)]
  /\ jobs_history = <<>>
  /\ communication_logs = [s \in Services |-> OldEntries(1)]
  /\ last_heartbeat = <<>>
  /\ InitNode([s \in Services |-> TRUE], ObservedModels, WanCatalog)
  /\ InitConfig(Absent)
  /\ InitAdvert
  /\ InitUpdater

NextErr ==
  \/ \E r \in Handlers : api_workflow_detail(r)
  \/ \E r \in Handlers : api_workflow_download(r)
  \/ \E r \in Handlers : api_workflow_availability(r)
  \/ \E r \in Handlers : api_logs_service(r)
  \/ \E r \in Handlers : api_logs_clear(r)
  \/ \E r \in Handlers : api_job_start(r)
  \/ \E r \in Handlers : JobCompleteBegin(r)
  \/ \E r \in Handlers : JobHistory(r)
  \/ \E r \in Handlers : CountRead(r)
  \/ \E r \in Handlers : CountWrite(r)
  \/ \E r \in Handlers : ClearJob(r)

SpecErr == InitErr /\ [][NextErr]_vars

(* ------------------------------- claims ------------------------------- *)
(* The step in which handler r returns its answer (or its generator ends). *)
Finishes(r) == Active(h[r]) /\ h'[r].pc = "done"

TrackedProxy(hr) == IsProxy(hr.ep) /\ Tracked(hr.svc, hr.req)

(* C1: for each service total_requests = successful_requests +             *)
(* failed_requests in every reachable state, the states another thread     *)
(* can observe while update_stats is running included.                     *)
C1_TotalIsSuccessPlusFailure ==
  \A s \in Services :
    agent_stats[s].total_requests =
      agent_stats[s].successful_requests + agent_stats[s].failed_requests

C3_OverlappingRequestsCountOne ==
  \A r, q \in Handlers :
    (/\ r # q
     /\ calls = 2
     /\ h[r].pc = "done" /\ h[q].pc = "done"
     /\ h[r].ep = "proxy_ollama" /\ h[q].ep = "proxy_ollama"
     /\ TrackedProxy(h[r]) /\ TrackedProxy(h[q])
     /\ h[r].outcome = "ok" /\ h[q].outcome = "ok"
     /\ h[r].rival /\ h[q].overwrote)
    => node_state["ollama"].jobs_completed = 1

(* C4: a proxy request, served alone, whose upstream call raised has been  *)
(* answered: total_requests and failed_requests are one more than when it  *)
(* was accepted, successful_requests and jobs_completed are as they were,  *)
(* last_error is the exception's message, current_job is null and the      *)
(* answer is 500 with {"error": message}.                                  *)
C4_UpstreamErrorIsRecordedAndAnswered ==
  \A r \in Handlers :
    (/\ h[r].pc = "done"
     /\ IsProxy(h[r].ep)
     /\ h[r].upstream \in UpstreamErrors)
    => LET st == agent_stats[h[r].svc]
           was == h[r].snap[1]
       IN /\ st.total_requests = was.stats.total_requests + 1
          /\ st.failed_requests = was.stats.failed_requests + 1
          /\ st.successful_requests = was.stats.successful_requests
          /\ st.last_error = h[r].upstream
          /\ node_state[h[r].svc].current_job = NoJob
          /\ node_state[h[r].svc].jobs_completed = was.jobs_completed
          /\ h[r].reply = [status |-> 500, error |-> h[r].upstream]

C4_Witness ==
  \E r \in Handlers :
    /\ h[r].pc = "done"
    /\ TrackedProxy(h[r])
    /\ h[r].upstream = "timed out"
    /\ h[r].snap[1].stats.total_requests = 1
    /\ agent_stats[h[r].svc].failed_requests = 1
    /\ h[r].reply.status = 500

(* The words of the 'response' fields of a sequence of chunks. *)
RECURSIVE ResponseWords(_)
ResponseWords(chunks) ==
  IF chunks = <<>> THEN 0 ELSE Head(chunks).words + ResponseWords(Tail(chunks))

(* C5: a tracked LLM request, served alone, whose streamed answer was      *)
(* delivered to its end: the client got the upstream's chunks, unchanged   *)
(* and in order; total_requests, successful_requests and jobs_completed    *)
(* are one more than when it was accepted, tokens_generated is more by     *)
(* the words of the chunks' 'response' fields, current_job is null.        *)
C5_StreamIsForwardedAndCounted ==
  \A r \in Handlers :
    (/\ h[r].pc = "done"
     /\ h[r].ep = "proxy_ollama"
     /\ TrackedProxy(h[r])
     /\ h[r].streamed
     /\ h[r].outcome = "ok")
    => LET st == agent_stats["ollama"]
           was == h[r].snap[1]
       IN /\ h[r].delivered = h[r].sent
          /\ Len(h[r].sent) >= 1
          /\ st.total_requests = was.stats.total_requests + 1
          /\ st.successful_requests = was.stats.successful_requests + 1
          /\ st.failed_requests = was.stats.failed_requests
          /\ st.tokens_generated = was.stats.tokens_generated + ResponseWords(h[r].sent)
          /\ node_state["ollama"].jobs_completed = was.jobs_completed + 1
          /\ node_state["ollama"].current_job = NoJob

(* The scenario "two chunks {"response": "hello"} and {"response": " world"}": *)
(* total 1, ok 1, tokens 2, jobs_completed 1.                              *)
C5_Witness ==
  \E r \in Handlers :
    /\ h[r].pc = "done"
    /\ h[r].ep = "proxy_ollama"
    /\ TrackedProxy(h[r])
    /\ h[r].streamed
    /\ h[r].outcome = "ok"
    /\ Len(h[r].delivered) = 2
    /\ \A i \in 1..2 : h[r].delivered[i].response
    /\ agent_stats["ollama"].total_requests = 1
    /\ agent_stats["ollama"].tokens_generated = 2
    /\ node_state["ollama"].jobs_completed = 1

(* C6: in the step that increments jobs_completed for a job, on every      *)
(* path that finishes a job (proxy, /job/complete,                         *)
(* /comfyui/queue/complete), current_job no longer holds that job.         *)
C6_ClearedBeforeCounted ==
  [][\A r \in Handlers :
       (/\ h[r].pc = "count_write"
        /\ h'[r].pc # "count_write"
        /\ h[r].job # NoJob)
       => \/ node_state'[h[r].svc].current_job = NoJob
          \/ node_state'[h[r].svc].current_job.id # h[r].job.id]_vars

(* C7: when a tracked streamed request ends because its client went away,  *)
(* and no other request set current_job while it was served, current_job   *)
(* is null once the request is gone.                                       *)
C7_DisconnectClearsJob ==
  [][\A r \in Handlers :
       (/\ Finishes(r)
        /\ TrackedProxy(h[r])
        /\ h[r].streamed
        /\ h'[r].outcome = "client_disconnected"
        /\ ~h'[r].rival)
       => node_state'[h[r].svc].current_job = NoJob]_vars

(* C8: a proxy call whose client has the whole answer (the handler has     *)
(* returned, or the last chunk of a streamed answer was delivered) or      *)
(* whose answer has ended is in the stats: update_stats has run for it.    *)
C8_AnsweredCallIsRecorded ==
  \A r \in Handlers :
    (IsProxy(h[r].ep) /\ h[r].pc \in {"eof", "done"}) => h[r].recorded

(* The step is one of a proxy call to service s, or of /stats/reset. *)
ProxyOrResetStep(s) ==
  \E r \in Handlers :
    /\ h'[r] # h[r]
    /\ \/ IsProxy(h'[r].ep) /\ h'[r].svc = s
       \/ h'[r].ep = "api_stats_reset"

C10_LogFailureDoesNotFailTheCall ==
  \A r \in Handlers :
    (/\ h[r].pc = "done"
     /\ IsProxy(h[r].ep)
     /\ LogRaises(RequestData(h[r].svc, h[r].req)))
    => h[r].upstream = "answered" /\ h[r].reply.status # 500

(* ---------------------- config and advertising ------------------------ *)
Range(list) == {list[k] : k \in 1..Len(list)}

RECURSIVE Minus(_, _)
Minus(list, hidden) ==
  IF list = <<>> THEN <<>>
  ELSE (IF Head(list) \in hidden THEN <<>> ELSE <<Head(list)>>) \o Minus(Tail(list), hidden)

(* The step is a heartbeat that was POSTed. *)
SentHeartbeat == calls' = calls + 1 /\ h' = h /\ alive' /\ heartbeat_body' # <<>>

(* The step is the request to endpoint ep, answered. *)
Answered(ep) ==
  /\ calls' = calls + 1
  /\ \E r \in Handlers : h'[r].pc = "done" /\ h'[r].ep = ep /\ h'[r].id = calls'

(* C11: the body of every heartbeat lists under ollama.models the observed *)
(* LLM models without those the config disables, in the observed order,    *)
(* and under ollama.all_models the whole observed list.                    *)
C11_HeartbeatAdvertisesEnabledModels ==
  [][SentHeartbeat =>
       /\ heartbeat_body'[1].ollama.models =
            Minus(node_state["ollama"].models, Range(model_config))
       /\ heartbeat_body'[1].ollama.all_models = node_state["ollama"].models]_vars

C11_Witness ==
  /\ heartbeat_body # <<>>
  /\ heartbeat_body[1].ollama.all_models = <<"a:1", "b:2", "c:3">>
  /\ heartbeat_body[1].ollama.models = <<"a:1", "c:3">>
  /\ model_config = <<"b:2">>

(* C12: no disabled LLM model and no disabled workflow id is in what       *)
(* /capabilities answers (LLM models; workflows supported and ready) or    *)
(* in a heartbeat's body (LLM models; workflows supported and ready),      *)
(* while /workflows/{id} answers 200 for a registered id, hidden or not.   *)
C12_DisabledIsNeverAdvertised ==
  [][/\ Answered("api_capabilities") =>
          /\ Range(response_body'[1].models) \cap Range(model_config) = {}
          /\ Range(response_body'[1].supported) \cap Range(disabled_workflows) = {}
          /\ Range(response_body'[1].ready) \cap Range(disabled_workflows) = {}
     /\ SentHeartbeat =>
          /\ Range(heartbeat_body'[1].ollama.models) \cap Range(model_config) = {}
          /\ Range(heartbeat_body'[1].workflows.supported) \cap Range(disabled_workflows) = {}
          /\ Range(heartbeat_body'[1].workflows.ready) \cap Range(disabled_workflows) = {}
     /\ Answered("api_workflow_detail") =>
          (response_body'[1].workflow \in DOMAIN WORKFLOW_REGISTRY
             <=> response_body'[1].status = 200)]_vars

(* C13: for every registered workflow and the observed catalog,            *)
(* all_available is true exactly when every file the workflow names is in  *)
(* the union of the observed slot lists, each slot's 'available' is that   *)
(* membership for its own file, and /capabilities lists as ready exactly   *)
(* the workflows whose files are all in the union.                         *)
ObservedUnion(info) ==
  UNION { Range(info[slot].items) : slot \in {x \in DOMAIN info : info[x].list} }

AllFilesObserved(w, info) ==
  \A model_type \in DOMAIN WORKFLOW_REGISTRY[w] :
    WORKFLOW_REGISTRY[w][model_type] \in ObservedUnion(info)

C13_ReadinessIsMembershipInUnion ==
  /\ \A w \in DOMAIN WORKFLOW_REGISTRY :
       LET readiness == check_workflow_model_availability(w, models_info)
       IN /\ readiness.all_available <=> AllFilesObserved(w, models_info)
          /\ DOMAIN readiness.models = DOMAIN WORKFLOW_REGISTRY[w]
          /\ \A model_type \in DOMAIN WORKFLOW_REGISTRY[w] :
               /\ readiness.models[model_type].name = WORKFLOW_REGISTRY[w][model_type]
               /\ readiness.models[model_type].available
                    <=> WORKFLOW_REGISTRY[w][model_type] \in ObservedUnion(models_info)
  /\ (response_body # <<>> /\ response_body[1].ep = "api_capabilities") =>
       \A w \in DOMAIN WORKFLOW_REGISTRY :
         w \in Range(response_body[1].ready) <=> AllFilesObserved(w, models_info)

C13_Witness ==
  /\ response_body # <<>>
  /\ response_body[1].ep = "api_capabilities"
  /\ response_body[1].ready = <<"wan2.2_14B_t2v", "holocine">>
  /\ ~AllFilesObserved("hunyuan_video_1.5_720p_t2v", models_info)

(* C14: after two consecutive /models/toggle requests for one model with   *)
(* 'enabled' omitted, both written to disk, the set of disabled models in  *)
(* memory and the set in the file are what they were before the first.     *)
TwoToggles(hr) ==
  /\ hr.pc = "done"
  /\ hr.ep = "api_models_toggle"
  /\ hr.id = calls
  /\ Len(hr.snap) = 2
  /\ hr.req.enabled = "omitted"
  /\ ~hr.snap[1].save_failed /\ ~hr.snap[2].save_failed

C14_ToggleTwiceRestoresDisabledSet ==
  \A r \in Handlers :
    (alive /\ TwoToggles(h[r])) =>
       /\ Range(model_config) = Range(h[r].snap[2].model_config)
       /\ Range(config_file.models) = Range(h[r].snap[2].config_file.models)

(* C15: whatever happens to the process while a config request writes the  *)
(* file, the file on disk is a complete config, never an empty or          *)
(* truncated one.                                                          *)
C15_ConfigFileIsNeverTorn == config_file.state # "torn"

(* C16: a /models/toggle or /models/set-enabled request during which a     *)
(* write of the config file failed is answered with status 500.            *)
C16_FailedSaveAnswers500 ==
  \A r \in Handlers :
    (/\ h[r].pc = "done"
     /\ h[r].ep \in {"api_models_toggle", "api_models_set_enabled"}
     /\ h[r].save_failed)
    => h[r].reply.status = 500

(* The step in which thread t's apply_update moves agent.py.new over       *)
(* agent.py, and the step in which its download_update compares the        *)
(* hashes and finds them different.                                        *)
Replaces(t) == u[t].pc = "move" /\ u'[t].pc = "restart"

Mismatch(t) == u[t].pc = "verify" /\ u'[t].pc # "verify" /\ get_file_hash("new") # u[t].hdr

Applying == {"copy", "move", "restore", "restart"}

C18_FailedApplyLeavesExecutable ==
  [][\A t \in Threads :
       u[t].pc = "restore" /\ u'[t].pc # "restore" =>
         disk'.exe # 0 /\ inodes'[disk'.exe].data = u[t].before]_vars

(* C19: the process re-execs only from a thread whose check answered       *)
(* needsUpdate, whose download was verified and whose apply_update         *)
(* returned True; a check that does not answer needsUpdate is followed by  *)
(* no download, and only a thread whose check answered needsUpdate writes  *)
(* agent.py, agent.py.new or agent.py.backup.                              *)
Updating(t) == u[t].pc \in {"download", "write", "verify"} \cup Applying

C19_RestartOnlyAfterAppliedUpdate ==
  [][/\ alive /\ ~alive' =>
          \E t \in Threads : /\ u[t].pc = "restart"
                             /\ u[t].needsUpdate /\ u[t].verified /\ u[t].applied
     /\ \A t \in Threads : Updating(t)' => u'[t].needsUpdate
     /\ <<disk, inodes>>' # <<disk, inodes>> =>
          \E t \in Threads : Updating(t) /\ u[t].needsUpdate
     /\ \A t \in Threads :
          u'[t].pc = "restart" /\ u[t].pc # "restart" => u[t].verified /\ u'[t].applied]_vars

(* The agent has re-executed itself after an update asked for over HTTP. *)
C19_Witness ==
  /\ ~alive
  /\ \E t \in Threads : u[t].pc = "restart" /\ u[t].path = "api" /\ u[t].applied
  /\ inodes[disk.exe].data = "v2"

(* C20: with a central server, a pass of the background loop starts the    *)
(* periodic update check exactly when it is the 25th, 50th, ... pass, the  *)
(* check starts in no other step, the counter is 0 when it starts and is   *)
(* never above 25.                                                         *)
LoopPass == cycle' = cycle + 1

PeriodicCheckStarts == u[0].pc # "check" /\ u'[0].pc = "check" /\ u'[0].path = "periodic"

C20_CheckEvery25thHeartbeat ==
  [][central_server # None =>
       /\ PeriodicCheckStarts <=> LoopPass /\ cycle' % UPDATE_CHECK_INTERVAL = 0
       /\ PeriodicCheckStarts => heartbeat_counter' = 0
       /\ heartbeat_counter' <= UPDATE_CHECK_INTERVAL]_vars

(* The second periodic check has started. *)
C20_Witness ==
  /\ central_server # None
  /\ cycle = 2 * UPDATE_CHECK_INTERVAL
  /\ u[0].pc = "check" /\ u[0].path = "periodic"
  /\ heartbeat_counter = 0

(* C21: a record made by update_stats leaves in recent_response_times the  *)
(* most recent min(n, 100) durations in the order they arrived (the new    *)
(* duration last, the oldest dropped once there are more than 100), and    *)
(* avg_response_time_ms is the mean of exactly those entries.              *)
Records(r) == h[r].pc = "us_rest" /\ h'[r] # h[r]

C21_WindowHoldsMostRecent ==
  [][\A r \in Handlers : Records(r) =>
       LET arrived == Append(agent_stats[h[r].svc].recent_response_times, h[r].dur)
           recent == agent_stats'[h[r].svc].recent_response_times
           avg == agent_stats'[h[r].svc].avg_response_time_ms
           kept == IF Len(arrived) < STATS_HISTORY_SIZE
                   THEN Len(arrived) ELSE STATS_HISTORY_SIZE
       IN /\ Len(recent) = kept
          /\ \A k \in 1..kept : recent[k] = arrived[Len(arrived) - kept + k]
          /\ avg[2] > 0
          /\ avg[1] * kept = SumSeq(recent) * avg[2]]_vars

(* A full window has taken one more duration and dropped its oldest. *)
C21_Witness ==
  \E s \in Services :
    LET recent == agent_stats[s].recent_response_times
    IN /\ Len(recent) = STATS_HISTORY_SIZE
       /\ recent[STATS_HISTORY_SIZE] = 0
       /\ recent[1] = 2
       /\ agent_stats[s].total_requests = STATS_HISTORY_SIZE + 1

(* C22: the requests_per_minute that /stats and /load-balance-info report  *)
(* for a service is the number of its request timestamps within the last   *)
(* 60 seconds, also when no request was recorded for more than 60 seconds. *)
InLastMinute(s) == Len(last_minute(agent_stats[s].requests_last_minute, now))

C22_ReportedRateIsLastMinute ==
  [][Answered("api_stats") \/ Answered("api_load_balance_info") =>
       \A s \in Services : response_body'[1].rpm[s] = InLastMinute(s)]_vars

(* C23: jobs_history never holds more than 50 entries and is ordered       *)
(* newest-first: a completion on either service puts its job, completed    *)
(* now, at index 0, moves the others one place down in their order and     *)
(* drops what would be the 51st; nothing else changes the list.            *)
NewestFirst(history) ==
  \A k \in 1..(Len(history) - 1) : history[k].completed_at[1] >= history[k + 1].completed_at[1]

Clears(s) ==
  \E r \in Handlers : h'[r].pc = "done" /\ h'[r].ep = "api_logs_clear" /\ h'[r].id = calls + 1
                      /\ communication_logs'[s] = <<>>

Appends(s) ==
  \E r \in Handlers, endpoint \in LogEndpoints :
    /\ h'[r].ep = "api_logs_add" /\ h'[r].svc = s
    /\ communication_logs'[s] =
         Prefix(<<LogEntry(endpoint)>> \o communication_logs[s], MAX_LOG_ENTRIES)

C24_LogRingsBoundedNewestFirst ==
  /\ [](\A s \in Services : Len(communication_logs[s]) <= MAX_LOG_ENTRIES)
  /\ [][\A s \in Services :
          communication_logs'[s] # communication_logs[s] =>
            /\ Clears(s) \/ Appends(s)
            /\ \A o \in Services \ {s} : communication_logs'[o] = communication_logs[o]]_vars

(* C25: when POST /stats/reset has been answered, every statistics field   *)
(* of both services holds its initial value, the token counters and the    *)
(* render counters included, whatever was recorded before.                 *)
C25_ResetRestoresInitialStats ==
  [][\A r \in Handlers :
       h[r].pc = "reset_comfyui" /\ h'[r].pc = "done" =>
         agent_stats' = [s \in Services |-> InitStats(s)]]_vars

(* C26: a probe that fails for a service leaves 'available' false and the  *)
(* service's last known catalog (the LLM model list, the RENDER            *)
(* models_info) as it was; a catalog changes only in a probe that          *)
(* succeeds for its service.                                               *)
ProbeStep ==
  /\ calls' = calls + 1 /\ h' = h /\ heartbeat_body' = heartbeat_body
  /\ communication_logs' # communication_logs

C26_FailedProbeKeepsCatalog ==
  [][/\ ProbeStep =>
          /\ \A s \in Services : ~reachable'[s] => ~node_state'[s].available
          /\ ~reachable'["ollama"] => node_state'["ollama"].models = node_state["ollama"].models
          /\ ~reachable'["comfyui"] => models_info' = models_info
     /\ node_state'["ollama"].models # node_state["ollama"].models =>
          ProbeStep /\ reachable'["ollama"]
     /\ models_info' # models_info => ProbeStep /\ reachable'["comfyui"]]_vars

(* C27: last_heartbeat is updated only by a heartbeat POST that was        *)
(* answered with a status the agent accepts; without an orchestrator URL   *)
(* no heartbeat is sent; a failed heartbeat (any other status, a timeout,  *)
(* a connection error) changes no agent state.  The agent accepts what     *)
(* response.ok accepts, a status below 400; the statement with 2xx in its  *)
(* place is C27_OnlyA2xxUpdatesLastHeartbeat.                              *)
HeartbeatStep == calls' = calls + 1 /\ h' = h /\ communication_logs' = communication_logs

AgentStateUnchanged ==
  UNCHANGED <<now, central_server, last_heartbeat, model_config, config_file, agent_stats,
              node_state, jobs_history, communication_logs, disabled_workflows, models_info,
              alive, updater, hardware>>

HeartbeatContract(accepted) ==
  /\ last_heartbeat' # last_heartbeat =>
       /\ HeartbeatStep /\ central_server # None
       /\ heartbeat_answer' \in accepted
       /\ last_heartbeat' = <<now>>
  /\ HeartbeatStep /\ central_server = None =>
       /\ heartbeat_body' = heartbeat_body /\ heartbeat_answer' = heartbeat_answer
       /\ AgentStateUnchanged
  /\ HeartbeatStep /\ central_server # None /\ heartbeat_answer' \notin accepted =>
       AgentStateUnchanged

C27_OnlyAnAcceptedAnswerUpdatesLastHeartbeat == [][HeartbeatContract(1..399)]_vars

C27_OnlyA2xxUpdatesLastHeartbeat == [][HeartbeatContract(200..299)]_vars

(* A heartbeat was answered well, and a later one failed. *)
C27_Witness ==
  /\ central_server # None
  /\ heartbeat_answer = 500
  /\ last_heartbeat # <<>> /\ last_heartbeat[1] < now

(* C28: the background loop never stops: while the process lives, every    *)
(* pass of the loop is followed by the next one, whatever the probes, the  *)
(* heartbeat and the periodic update check of the pass ran into, unless    *)
(* the process re-executes itself after an update.  Passes are counted    *)
(* one by one up to MaxCycles, from 0 again in a process started anew, so  *)
(* that the loop goes on from every pass exactly when, from every state    *)
(* of a living process, the count reaches MaxCycles or the process ends.   *)
C28_NextCycleEventuallyRuns ==
  /\ [][cycle' # cycle => IF alive THEN cycle' = cycle + 1 ELSE cycle' = 0]_vars
  /\ (alive /\ cycle < MaxCycles) ~> (~alive \/ cycle = MaxCycles)

(* The last pass has run although no probe and no heartbeat ever went      *)
(* well and two periodic checks ended without an update.                   *)
C28_Witness ==
  /\ cycle = MaxCycles
  /\ alive /\ restarts = 0
  /\ central_server # None
  /\ last_heartbeat = <<>>
  /\ \A s \in Services : ~node_state[s].available

(* C29: a RENDER /can-handle request, with the RENDER service available,   *)
(* a GPU present and every file of the requested workflow observed, is     *)
(* answered can_handle = false with the reason "GPU memory full" whenever  *)
(* the first GPU's memory is used to 95 percent or more.                   *)
Asked == CHOOSE r \in Handlers : h'[r].id = calls'

RenderAsked(workflow_id) ==
  /\ Answered("api_can_handle")
  /\ h'[Asked].req.job_type = "comfyui" /\ h'[Asked].req.workflow_id = workflow_id
  /\ node_state["comfyui"].available
  /\ hardware # NoGpu
  /\ AllAvailable(check_workflow_model_availability(workflow_id, models_info))

C29_GpuMemoryFullFrom95 ==
  [][\A workflow_id \in DOMAIN WORKFLOW_REGISTRY :
       RenderAsked(workflow_id) /\ hardware[1].memory_usage_percent >= 95 =>
         /\ ~response_body'[1].result.can_handle
         /\ response_body'[1].result.reason = "GPU memory full"]_vars

(* C30: an LLM /can-handle request, with the LLM service available and     *)
(* the model it names present (or none named), is answered can_handle =    *)
(* true; with score 30 and estimated_wait_ms the average response time     *)
(* when the service is busy and the priority is not "high"; otherwise      *)
(* with score 100, less 20 when the average is above 10000 ms, less 30     *)
(* when the success rate is below 95, less 40 when busy, and not below 0.  *)
(* The score of every answer is within 0..100.                             *)
LlmAsked ==
  /\ Answered("api_can_handle")
  /\ h'[Asked].req.job_type \in {"ollama", "absent"}
  /\ node_state["ollama"].available
  /\ h'[Asked].req.model \in {"absent"} \cup Range(node_state["ollama"].models)

C30_LlmScore ==
  [][/\ LlmAsked =>
          LET result == response_body'[1].result
              avg_ms == agent_stats["ollama"].avg_response_time_ms
              success_rate == agent_stats["ollama"].success_rate
              busy == node_state["ollama"].current_job # NoJob
              score == 100 - (IF avg_ms[1] > 10000 * avg_ms[2] THEN 20 ELSE 0)
                           - (IF success_rate[1] < 95 * success_rate[2] THEN 30 ELSE 0)
                           - (IF busy THEN 40 ELSE 0)
          IN /\ result.can_handle
             /\ IF busy /\ h'[Asked].req.priority # "high"
                THEN result.score = 30 /\ result.estimated_wait_ms = <<avg_ms>>
                ELSE result.score = IF score < 0 THEN 0 ELSE score
     /\ Answered("api_can_handle") => response_body'[1].result.score \in 0..100]_vars

(* A busy LLM service with an average of 12 seconds was asked for a:1 at   *)
(* normal priority and answered 30 with 12000 ms to wait.                  *)
C30_Witness ==
  /\ response_body # <<>> /\ response_body[1].ep = "api_can_handle"
  /\ \E r \in Handlers :
       /\ h[r].pc = "done" /\ h[r].id = calls
       /\ h[r].req.job_type = "ollama" /\ h[r].req.model = "a:1"
       /\ h[r].req.priority = "normal"
  /\ node_state["ollama"].available /\ node_state["ollama"].current_job # NoJob
  /\ response_body[1].result =
       [can_handle |-> TRUE, reason |-> "Currently processing another job", score |-> 30,
        estimated_wait_ms |-> << <<12000, 1>> >>]

(* C31: an endpoint that takes a workflow id answers 404 for an id that    *)
(* is not in the registry, an endpoint that takes a service name answers   *)
(* 400 for a name other than the two services, and neither changes any     *)
(* state of the agent.                                                     *)
WorkflowEndpoints == {"api_workflow_detail", "api_workflow_download", "api_workflow_availability"}
ServiceEndpoints == {"api_logs_service", "api_logs_clear", "api_job_start", "api_job_complete"}

Serves(r, eps) == h'[r] # h[r] /\ h'[r].ep \in eps

AgentStateKept ==
  UNCHANGED <<agent_stats, node_state, jobs_history, communication_logs, conf,
              disabled_workflows, models_info>>

C31_UnknownNamesAreRefused ==
  [][\A r \in Handlers :
       /\ Serves(r, WorkflowEndpoints) /\ h'[r].req.workflow_id \notin DOMAIN WORKFLOW_REGISTRY =>
            /\ h'[r].pc = "done" => h'[r].reply.status = 404
            /\ AgentStateKept
       /\ Serves(r, ServiceEndpoints) /\ h'[r].req.service \notin Services =>
            /\ h'[r].pc = "done" => h'[r].reply.status = 400
            /\ AgentStateKept]_vars

(* --------------------- the heartbeat, read by read --------------------- *)
(* send_heartbeat, 963-1012, in the background thread while a handler     *)
(* thread runs (app.run(threaded=True), 2826): the payload is a dict      *)
(* display whose values are read one after the other, with no lock around *)
(* them.  The payload under construction is u[0].payload; what a later     *)
(* step reads is overwritten by that step.                                 *)
BeatBegin ==
  /\ alive
  /\ central_server # None
  /\ u[0].pc = "loop"
  /\ cycle < MaxBeats
  /\ u' = [u EXCEPT ![0].pc = "ollama_job", ![0].payload = <<HeartbeatPayload>>]
  /\ UNCHANGED <<now, serial, calls, h, agent_stats, node_state, jobs_history, communication_logs,
                 conf, advert, no_update, reachable, restarts, disk, inodes, heartbeat_counter,
                 cycle, hardware, heartbeat_answer>>

BeatService == [ollama_job |-> "ollama", ollama_count |-> "ollama",
                comfyui_job |-> "comfyui", comfyui_count |-> "comfyui"]

(* 980 and 983-986: "current_job": node_state[s]['current_job'], for       *)
(* comfyui after its available and models_info.                            *)
BeatJob ==
  /\ u[0].pc \in {"ollama_job", "comfyui_job"}
  /\ LET s == BeatService[u[0].pc]
         read == [u[0].payload[1][s] EXCEPT !.current_job = node_state[s].current_job,
                                            !.available = node_state[s].available]
     IN u' = [u EXCEPT ![0].pc = IF s = "ollama" THEN "ollama_count" ELSE "comfyui_count",
                       ![0].payload =
                         <<[@[1] EXCEPT ![s] = IF s = "ollama" THEN read
                                               ELSE [read EXCEPT !.models_info = models_info]]>>]
  /\ UNCHANGED <<now, serial, calls, h, agent_stats, node_state, jobs_history, communication_logs,
                 conf, advert, no_update, reachable, restarts, disk, inodes, heartbeat_counter,
                 cycle, hardware, heartbeat_answer>>

(* 981 and 987: "jobs_completed": node_state[s]['jobs_completed']. *)
BeatCount ==
  /\ u[0].pc \in {"ollama_count", "comfyui_count"}
  /\ LET s == BeatService[u[0].pc]
     IN u' = [u EXCEPT ![0].pc = IF s = "ollama" THEN "comfyui_job" ELSE "post",
                       ![0].payload =
                         <<[@[1] EXCEPT ![s].jobs_completed = node_state[s].jobs_completed]>>]
  /\ UNCHANGED <<now, serial, calls, h, agent_stats, node_state, jobs_history, communication_logs,
                 conf, advert, no_update, reachable, restarts, disk, inodes, heartbeat_counter,
                 cycle, hardware, heartbeat_answer>>

(* 989-1012: the workflows, then the POST and its answer. *)
BeatPost ==
  /\ u[0].pc = "post"
  /\ \E status \in HeartbeatAnswers :
       Heartbeat([u[0].payload[1] EXCEPT !.workflows = HeartbeatPayload.workflows], status)
  /\ u' = [u EXCEPT ![0] = [IdleUpdate EXCEPT !.pc = "loop"]]
  /\ cycle' = cycle + 1
  /\ UNCHANGED <<now, serial, calls, h, agent_stats, node_state, jobs_history, communication_logs,
                 central_server, model_config, config_file, disabled_workflows, models_info,
                 response_body, alive, no_update, reachable, restarts, disk, inodes,
                 heartbeat_counter, hardware>>

(* The agent heartbeats to an orchestrator while the proxies serve. *)
InitBeat ==
  /\ serial = TRUE
  /\ central_server = "http://server"
  /\ InitMemory
  /\ InitNode([s \in Services |-> TRUE], ObservedModels, WanCatalog)
  /\ InitConfig(Absent)
  /\ InitAdvert
  /\ InitUpdater

NextBeat ==
  \/ \E r \in Handlers : proxy_ollama(r)
  \/ \E r \in Handlers : proxy_comfyui(r)
  \/ \E r \in Handlers : update_stats(r)
  \/ \E r \in Handlers : ProxyExcept(r)
  \/ \E r \in Handlers : ProxyCheck(r)
  \/ \E r \in Handlers : ClearJob(r)
  \/ \E r \in Handlers : CountRead(r)
  \/ \E r \in Handlers : CountWrite(r)
  \/ BeatBegin
  \/ BeatJob
  \/ BeatCount
  \/ BeatPost

SpecBeat == InitBeat /\ [][NextBeat]_vars

(* What every state of the agent under SpecBeat has: a service whose       *)
(* current job is that of the k-th request has completed fewer than k jobs *)
(* (a proxy counts a job after it cleared it, 2545-2546).                  *)
Coherent(payload) ==
  \A s \in Services :
    payload[s].current_job # NoJob => payload[s].jobs_completed < payload[s].current_job.id

EveryStateIsCoherent == Coherent(HeartbeatPayload)

(* C32: the body of every heartbeat sent is a snapshot of one state of the *)
(* agent: it has what every single state has, here that the current job it *)
(* carries for a service is not among the jobs it counts as completed.      *)
C32_HeartbeatBodyIsOneState ==
  heartbeat_body # <<>> => Coherent(heartbeat_body[1])

(* ------------------ config requests in handler threads ------------------ *)
(* api_models_toggle, 1915-1934, and api_models_set_enabled, 1937-1950, in *)
(* Flask's handler threads: the request's entries are taken one by one,    *)
(* each through set_ollama_model_enabled and save_config; no lock is held. *)
ToggleRequests ==
  { <<[model |-> m, enabled |-> e]>> : m \in ModelNames, e \in {"true", "false", "omitted"} }

ConfigBegin(r) ==
  /\ CanAccept(r)
  /\ \E ep \in {"api_models_toggle", "api_models_set_enabled"} :
       \E models \in IF ep = "api_models_toggle" THEN ToggleRequests ELSE SetEnabledRequests :
         LET hr == Accept(r, ep, "none", [method |-> "POST", models |-> models])
             given == IF ep = "api_models_toggle"
                      THEN <<[model |-> models[1].model,
                              enabled |-> IF models[1].enabled = "omitted"
                                          THEN ~is_ollama_model_enabled(models[1].model)
                                          ELSE models[1].enabled = "true"]>>
                      ELSE models
         IN h' = [h EXCEPT ![r] =
                    IF given = <<>> THEN Done(hr, "ok", 200, None)
                    ELSE [hr EXCEPT !.pc = "set", !.reg = 1, !.sent = given]]
  /\ calls' = calls + 1
  /\ UNCHANGED <<now, serial, ext, conf, agent_stats, node_state, jobs_history, communication_logs>>

(* 113-120: the list of disabled models is changed in memory. *)
SetModelEnabled(r) ==
  /\ h[r].pc = "set"
  /\ model_config' = set_ollama_model_enabled(model_config, h[r].sent[h[r].reg].model,
                                              h[r].sent[h[r].reg].enabled)
  /\ h' = [h EXCEPT ![r].pc = "open"]
  /\ UNCHANGED <<now, serial, ext, central_server, last_heartbeat, config_file, calls, agent_stats,
                 node_state, jobs_history, communication_logs>>

(* 90: open(CONFIG_FILE, 'w') truncates the file to length 0. *)
SaveOpen(r) ==
  /\ h[r].pc = "open"
  /\ config_file' = Torn
  /\ h' = [h EXCEPT ![r].pc = "dump"]
  /\ UNCHANGED <<now, serial, ext, central_server, last_heartbeat, model_config, calls, agent_stats,
                 node_state, jobs_history, communication_logs>>

(* 91: json.dump serialises model_config as it is now into the buffer of   *)
(* the file object (the text is far shorter than the buffer).              *)
SaveDump(r) ==
  /\ h[r].pc = "dump"
  /\ h' = [h EXCEPT ![r].pc = "close", ![r].buf = model_config]
  /\ UNCHANGED <<now, serial, ext, conf, calls, agent_stats, node_state, jobs_history,
                 communication_logs>>

(* What is in a file of some length after text was written at offset 0 of  *)
(* it: the text, or the text followed by the rest of the longer content,   *)
(* which does not parse.  The model names have one length, so a dump is as *)
(* long as its list; a file that does not parse keeps its length in        *)
(* 'models'.                                                               *)
WrittenOver(file, disabled) ==
  IF Len(file.models) > Len(disabled)
  THEN [Torn EXCEPT !.models = file.models]
  ELSE File(disabled, disabled_workflows)

(* Leaving the with block (91-92) flushes the buffer at the descriptor's   *)
(* offset, 0, and closes; then the next entry or the answer, 200.          *)
SaveClose(r) ==
  /\ h[r].pc = "close"
  /\ config_file' = WrittenOver(config_file, h[r].buf)
  /\ h' = [h EXCEPT ![r] =
             IF @.reg < Len(@.sent)
             THEN [@ EXCEPT !.pc = "set", !.reg = h[r].reg + 1, !.buf = <<>>]
             ELSE Done([@ EXCEPT !.buf = <<>>, !.sent = <<>>], "ok", 200, None)]
  /\ UNCHANGED <<now, serial, ext, central_server, last_heartbeat, model_config, calls, agent_stats,
                 node_state, jobs_history, communication_logs>>

InitSave ==
  /\ serial = FALSE
  /\ central_server = None
  /\ InitMemory
  /\ InitNode([s \in Services |-> TRUE], ObservedModels, WanCatalog)
  /\ InitConfig(Absent)
  /\ InitAdvert
  /\ InitUpdater

NextSave ==
  \/ \E r \in Handlers : ConfigBegin(r)
  \/ \E r \in Handlers : SetModelEnabled(r)
  \/ \E r \in Handlers : SaveOpen(r)
  \/ \E r \in Handlers : SaveDump(r)
  \/ \E r \in Handlers : SaveClose(r)

SpecSave == InitSave /\ [][NextSave]_vars

(* C33: once every config request has returned (none of their writes       *)
(* failed), the config file, if one was written, is well formed and holds  *)
(* the config that is in memory.                                           *)
C33_ConfigFileIsTheConfigInMemory ==
  (Quiet /\ config_file # Absent) => config_file = File(model_config, disabled_workflows)

(* C34: a proxied request whose upstream answered with a status outside    *)
(* 2xx is recorded as a failure: when its handler returns,                 *)
(* failed_requests is one more than when the request was accepted,         *)
(* successful_requests is as it was and last_error is set.                 *)
C34_NonSuccessStatusIsRecordedAsFailure ==
  [][\A r \in Handlers :
       (/\ Finishes(r)
        /\ IsProxy(h[r].ep)
        /\ h[r].upstream = "answered"
        /\ h[r].status \notin 200..299
        /\ h[r].snap # <<>>)
       => LET st == agent_stats'[h[r].svc]
              was == h[r].snap[1].stats
          IN /\ st.failed_requests = was.failed_requests + 1
             /\ st.successful_requests = was.successful_requests
             /\ st.last_error # None]_vars

(* C35: when the handler of a tracked proxy request returns and the job    *)
(* ended with it (an LLM request after success or error, a RENDER request  *)
(* after an error), the newest entry of jobs_history is a copy of that     *)
(* request's job with a terminal status and its completed_at set.          *)
C35_FinishedProxyJobIsInHistory ==
  [][\A r \in Handlers :
       (/\ Finishes(r)
        /\ TrackedProxy(h[r])
        /\ h[r].upstream # "not called"
        /\ h'[r].outcome \in {"ok", "error"}
        /\ h[r].svc = "ollama" \/ h'[r].outcome = "error")
       => /\ jobs_history' # <<>>
          /\ jobs_history'[1].id = h[r].id
          /\ jobs_history'[1].status \in {"completed", "failed"}
          /\ jobs_history'[1].completed_at # <<>>]_vars

(* C36: n proxy requests to one service, served concurrently by the        *)
(* handler threads, have all returned with their update_stats done and     *)
(* nothing else was served: total_requests of the service is n, and so is  *)
(* successful_requests + failed_requests.                                  *)
C36_NoLostIncrement ==
  \A s \in Services :
    LET served == { r \in Handlers : /\ h[r].pc = "done" /\ IsProxy(h[r].ep)
                                     /\ h[r].svc = s /\ h[r].recorded }
    IN (Quiet /\ calls > 0 /\ calls = Cardinality(served))
       => /\ agent_stats[s].total_requests = calls
          /\ agent_stats[s].successful_requests + agent_stats[s].failed_requests = calls

(* C37: while a tracked proxy request to a service waits for, or streams,  *)
(* its upstream response, current_job of the service is not null, whatever *)
(* other tracked proxy requests did meanwhile (nothing else is served).    *)
C37_InFlightRequestShowsAJob ==
  \A s \in Services :
    (/\ \A q \in Handlers : h[q].pc # "idle" => TrackedProxy(h[q])
     /\ \E r \in Handlers : /\ TrackedProxy(h[r])
                            /\ h[r].svc = s
                            /\ h[r].pc \in {"upstream", "stream"})
    => node_state[s].current_job # NoJob

(* C38: no step of the handler of an untracked proxy request (an LLM path  *)
(* without generate or chat, a RENDER path other than prompt, any request  *)
(* without a body) changes current_job or jobs_completed of any service.   *)
C38_UntrackedRequestLeavesJobsAlone ==
  [][\A r \in Handlers :
       (/\ h'[r] # [h[r] EXCEPT !.rival = h'[r].rival]
        /\ Active(h[r])
        /\ IsProxy(h[r].ep)
        /\ ~Tracked(h[r].svc, h[r].req))
       => \A s \in Services :
            /\ node_state'[s].current_job = node_state[s].current_job
            /\ node_state'[s].jobs_completed = node_state[s].jobs_completed]_vars

(* ---------------- the updater, in two or more threads ----------------- *)
(* The agent runs with --no-update against an orchestrator that answers    *)
(* every heartbeat; a handler thread serves one /api/update/apply while    *)
(* the background thread makes its periodic check.                         *)
InitRace ==
  /\ serial = FALSE
  /\ central_server = "http://server"
  /\ InitState
  /\ InitAdvert
  /\ hardware = NoGpu
  /\ no_update = TRUE
  /\ reachable = [s \in Services |-> FALSE]
  /\ restarts = 0
  /\ InitFiles
  /\ u = Threads0("startup")
  /\ heartbeat_counter = 0
  /\ cycle = 0

NextRace ==
  \/ main
  \/ main_init
  \/ cycle < MaxUpdCycles /\ background_tasks /\ heartbeat_answer' = 200
  \/ \E r \in Handlers : calls = 0 /\ api_update_apply(r)
  \/ \E t \in Threads : Update(t)
  \/ Start

SpecRace == InitRace /\ [][NextRace]_vars

(* The bodies a download can bring, whole. *)
Downloaded == { resp.body : resp \in { d \in DownloadResponses : d.ok } }

(* C39: when a thread that applied an update re-execs the agent, the       *)
(* executable is a whole downloaded file: not the old version, moved back  *)
(* from the backup or never replaced, and not a part of a download.        *)
C39_ReexecRunsTheDownloadedFile ==
  [][\A t \in Threads :
       (alive /\ ~alive' /\ u[t].pc = "restart" /\ u[t].applied)
       => disk.exe # 0 /\ inodes[disk.exe].data \in Downloaded]_vars

(* C40: --no-update turns off the startup check and nothing else: main     *)
(* checks at startup exactly when there is an orchestrator and no          *)
(* --no-update; with an orchestrator every pass of the background loop     *)
(* that brings the counter to UPDATE_CHECK_INTERVAL starts the periodic    *)
(* check and resets the counter, --no-update or not, and no other pass     *)
(* does; without an orchestrator no thread ever checks, the files stay as  *)
(* they are and the process is never re-executed.                          *)
C40_NoUpdateSkipsOnlyTheStartupCheck ==
  [][/\ (alive /\ u[0].pc = "startup" /\ u'[0] # u[0])
          => (u'[0].pc = "check" <=> (central_server # None /\ ~no_update))
     /\ (alive /\ cycle' = cycle + 1 /\ central_server # None)
          => IF heartbeat_counter + 1 >= UPDATE_CHECK_INTERVAL
             THEN u'[0].pc = "check" /\ u'[0].path = "periodic" /\ heartbeat_counter' = 0
             ELSE u'[0].pc = "loop" /\ heartbeat_counter' = heartbeat_counter + 1
     /\ central_server = None
          => /\ \A t \in Threads : u'[t].pc # "check"
             /\ disk' = disk /\ inodes' = inodes
             /\ alive' = alive /\ restarts' = restarts]_vars

C40_Witness ==
  /\ no_update
  /\ central_server # None
  /\ ~alive
  /\ u[0].pc = "restart" /\ u[0].path = "periodic" /\ u[0].applied
  /\ inodes[disk.exe].data = "v2"

====
